---- MODULE Spec2Model ----
(***************************************************************************)
(* KrishiSahay backend: the answer resolution pipeline of POST /ask        *)
(* (src/backend/main.py), the response cache of src/backend/database.py,   *)
(* the language router of src/backend/utils.py and the retrieval fallback  *)
(* of src/backend/model.py.                                                *)
(*                                                                         *)
(* Text.  A Python str is modelled as a sequence of pieces whose           *)
(* concatenation is the string.  User text (queries, raw backend output)   *)
(* is one character per piece; the string literals of the source are one   *)
(* piece each, copied from the source.  No piece is empty, so a text is    *)
(* empty iff it has no piece; strip(), lower() and the keyword tests are   *)
(* applied to texts whose pieces at the positions they inspect are single  *)
(* characters (no literal of the source holds one of the keywords).        *)
(*                                                                         *)
(* Optional values.  None is <<>> and a value v is <<v>>.                  *)
(***************************************************************************)
EXTENDS Naturals, Integers, Sequences, FiniteSets, TLC

VARIABLES
    sbclient,   \* the Supabase client library in use: what maybe_single().execute()
                \* gives when no row matches
    dbcfg,      \* Database.__init__: the set of store handles that are not None
    store,      \* query_cache rows of each backing store
    clock,      \* datetime.now() as a logical clock
    nmiss,      \* number of /ask requests so far that missed the cache
    pc,         \* per request slot: position inside ask_question
    req,        \* per request slot: the AskRequest
    lang,       \* per request slot: the resolved language `lang`
    qfm,        \* per request slot: query_for_model
    ctx,        \* per request slot: the context string of build_context_prompt
    result,     \* per request slot: the local `result` dict
    ans,        \* per request slot: the local `answer`
    resp,       \* per request slot: the AskResponse returned (None while running)
    calls,      \* per request slot: log of the collaborators invoked, in order
    puts,       \* per request slot: log of the db.cache_response calls: the
                \* arguments, and the stores whose call raised
    producer,   \* per request slot: the component whose output `result` holds
    dbop,       \* the last direct call of a Database method and what it returned
    shadow,     \* per cache key: what the direct calls have put there
    probe       \* a call of one function on its own: name, arguments, outcome

vars == <<sbclient, dbcfg, store, clock, nmiss, pc, req, lang, qfm, ctx, result, ans, resp,
          calls, puts, producer, dbop, shadow, probe>>

----------------------------------------------------------------------------
(* Bounds of the model *)

\* length of the texts the language router is applied to on its own
MaxTextLen == 2
\* /ask requests that miss the cache in one behaviour (hits are not limited)
MaxMisses == 1
\* direct Database.cache_response calls in one behaviour
MaxDbPuts == 2

----------------------------------------------------------------------------
(* Optional values *)

None == <<>>
Some(v) == <<v>>
IsNone(o) == Len(o) = 0
Get(o) == o[1]

----------------------------------------------------------------------------
(* Characters and str methods *)

\* The characters user text is drawn from; a name "U+xxxx" stands for the single
\* character of that code point (Telugu VA, Devanagari KA, the last character
\* of the Devanagari block, the first of the Bengali block, and the letter KA
\* of Bengali, Gurmukhi, Gujarati, Odia, Tamil, Kannada and Malayalam).
Alphabet == {" ", "\n", "R", "I", "C", "E", "r", "i", "c", "e", "h", "o", "w",
             "n", "k", "?", "1", "U+0C35", "U+0915", "U+097F", "U+0980", "U+0995",
             "U+0A15", "U+0A95", "U+0B15", "U+0B95", "U+0C95", "U+0D15"}

\* ord(c)
Ord == [c \in Alphabet |->
          CASE c = " " -> 32 [] c = "\n" -> 10 [] c = "?" -> 63
            [] c = "R" -> 82 [] c = "I" -> 73 [] c = "C" -> 67 [] c = "E" -> 69
            [] c = "r" -> 114 [] c = "i" -> 105 [] c = "c" -> 99 [] c = "e" -> 101
            [] c = "h" -> 104 [] c = "o" -> 111 [] c = "w" -> 119
            [] c = "n" -> 110 [] c = "k" -> 107
            [] c = "1" -> 49
            [] c = "U+0C35" -> 3125 [] c = "U+0915" -> 2325
            [] c = "U+097F" -> 2431 [] c = "U+0980" -> 2432 [] c = "U+0995" -> 2453
            [] c = "U+0A15" -> 2581 [] c = "U+0A95" -> 2709 [] c = "U+0B15" -> 2837
            [] c = "U+0B95" -> 2965 [] c = "U+0C95" -> 3221 [] c = "U+0D15" -> 3349]

\* str.isspace() of one character (the whitespace str.strip() removes)
IsSpace(c) == c \in {" ", "\t", "\n", "\r"}

\* str.lower() of one piece: an upper-case ASCII letter maps to the letter 32
\* code points above it, everything else of the alphabet is caseless.
LowerChar(c) ==
    IF c \in Alphabet /\ Ord[c] >= 65 /\ Ord[c] <= 90
    THEN CHOOSE d \in Alphabet : Ord[d] = Ord[c] + 32
    ELSE c

\* str.lower()
lower(s) == [i \in 1..Len(s) |-> LowerChar(s[i])]

RECURSIVE lstrip(_)
lstrip(s) == IF s = <<>> THEN s
             ELSE IF IsSpace(Head(s)) THEN lstrip(Tail(s)) ELSE s

RECURSIVE rstrip(_)
rstrip(s) == IF s = <<>> THEN s
             ELSE IF IsSpace(s[Len(s)]) THEN rstrip(SubSeq(s, 1, Len(s) - 1)) ELSE s

\* str.strip()
strip(s) == rstrip(lstrip(s))

\* `sub in s` for str
Contains(sub, s) ==
    \E i \in 0..(Len(s) - Len(sub)) : SubSeq(s, i + 1, i + Len(sub)) = sub

----------------------------------------------------------------------------
(* utils.py *)

translate_text_Tagged(text, source_lang, target_lang) ==
    IF source_lang = target_lang \/ source_lang = "mixed" THEN text
    ELSE <<"[", target_lang, "] ">> \o text

\* translate_text: both branches return the text
translate_text(text, source_lang, target_lang) ==
    IF source_lang = target_lang \/ source_lang = "mixed" THEN text ELSE text

\* normalize_query
normalize_query(query) == strip(lower(query))

InRange_Exclusive(c, lo, hi) == c \in Alphabet /\ Ord[c] >= lo /\ Ord[c] < hi

\* lo <= c <= hi on characters
InRange(c, lo, hi) == c \in Alphabet /\ Ord[c] >= lo /\ Ord[c] <= hi

\* any(lo <= c <= hi for c in text)
AnyIn(text, lo, hi) == \E i \in 1..Len(text) : InRange(text[i], lo, hi)

telugu_words == << <<"e","l","a">>, <<"c","h","e","y","a","m">>, <<"u","n","d","h","i">>,
                   <<"l","e","d","h","u">>, <<"a","v","u","t","h","u","n","d","i">>,
                   <<"c","h","e","p","p","u">>, <<"i","v","v","a","n","d","i">> >>
hindi_words == << <<"k","a","i","s","e">>, <<"k","y","a">>, <<"k","y","u","n">>,
                  <<"h","a","i">>, <<"h","o">>, <<"k","a","r">>, <<"k","a","r","n","e">>,
                  <<"k","e">>, <<"k","i">> >>
tamil_words == << <<"e","l","a","a","m">>, <<"i","r","u","k","k","u">>, <<"p","a","n","n","u">>,
                  <<"p","a","n","n","a","l","a","m">>, <<"v","e","n","u","m">>,
                  <<"i","l","l","a","i">> >>

AnyWord_WholeWord(words, text) ==
    \E k \in 1..Len(words) :
        \E i \in 0..(Len(text) - Len(words[k])) :
            /\ SubSeq(text, i + 1, i + Len(words[k])) = words[k]
            /\ i = 0 \/ text[i] = " "
            /\ i + Len(words[k]) = Len(text) \/ text[i + Len(words[k]) + 1] = " "

\* any(word in text_lower for word in words)
AnyWord(words, text) == \E k \in 1..Len(words) : Contains(words[k], text)

B2N(b) == IF b THEN 1 ELSE 0

\* detect_language
detect_language(text) ==
    LET has_devanagari == AnyIn(text, 2304, 2431)
        has_telugu     == AnyIn(text, 3072, 3199)
        has_tamil      == AnyIn(text, 2944, 3071)
        has_bengali    == AnyIn(text, 2432, 2559)
        has_gujarati   == AnyIn(text, 2688, 2815)
        has_kannada    == AnyIn(text, 3200, 3327)
        has_malayalam  == AnyIn(text, 3328, 3455)
        has_odia       == AnyIn(text, 2816, 2943)
        has_gurmukhi   == AnyIn(text, 2560, 2687)
        has_english    == AnyIn(text, 97, 122) \/ AnyIn(text, 65, 90)
        text_lower     == lower(text)
        has_transliterated_telugu == AnyWord(telugu_words, text_lower)
        has_transliterated_hindi  == AnyWord(hindi_words, text_lower)
        has_transliterated_tamil  == AnyWord(tamil_words, text_lower)
        scripts == B2N(has_devanagari) + B2N(has_telugu) + B2N(has_tamil)
                   + B2N(has_bengali) + B2N(has_gujarati) + B2N(has_kannada)
                   + B2N(has_malayalam) + B2N(has_odia) + B2N(has_gurmukhi)
                   + B2N(has_english)
    IN  IF scripts >= 2 THEN "mixed"
        ELSE IF has_transliterated_telugu /\ has_english THEN "mixed"
        ELSE IF has_transliterated_hindi /\ has_english THEN "mixed"
        ELSE IF has_transliterated_tamil /\ has_english THEN "mixed"
        ELSE IF has_devanagari THEN "hi"
        ELSE IF has_telugu THEN "te"
        ELSE IF has_tamil THEN "ta"
        ELSE IF has_bengali THEN "bn"
        ELSE IF has_gujarati THEN "gu"
        ELSE IF has_kannada THEN "kn"
        ELSE IF has_malayalam THEN "ml"
        ELSE IF has_odia THEN "or"
        ELSE IF has_gurmukhi THEN "pa"
        ELSE "en"

----------------------------------------------------------------------------
(* context_utils.py *)

get_indian_season_ShortMonsoon(month) ==
    IF 6 <= month /\ month <= 9 THEN "Kharif (monsoon)"
    ELSE IF month \in {11, 12, 1, 2, 3} THEN "Rabi (winter)"
    ELSE "Zaid (summer)"

\* get_indian_season, of the calendar month datetime.now().month
get_indian_season(month) ==
    IF 6 <= month /\ month <= 10 THEN "Kharif (monsoon)"
    ELSE IF month \in {11, 12, 1, 2, 3} THEN "Rabi (winter)"
    ELSE "Zaid (summer)"

\* build_context_prompt with region, lat and lon absent; season is Optional
\* (`season or get_indian_season()`: None and "" both take the default)
build_context_prompt(season, month) ==
    LET season_used == IF IsNone(season) \/ Get(season) = ""
                       THEN get_indian_season(month) ELSE Get(season)
    IN  <<"Current season in India: ", season_used>>

----------------------------------------------------------------------------
(* database.py: the query_cache table of each backing store *)

StoreNames == {"supabase", "mongodb", "mysql"}

\* Database.__init__: supabase and mongodb are each created when configured;
\* mysql is tried only when both are None.
DbConfigs == { {}, {"supabase"}, {"mongodb"}, {"supabase", "mongodb"}, {"mysql"} }

\* What select(...).maybe_single().execute() of the Supabase client gives when
\* no row matches: a response with empty data ("empty"), or None ("none"), on
\* which `r.data` raises AttributeError inside the try block.  The client
\* library is not part of the sources and database.py works with no particular
\* version of it, so either may be the one installed.
SupabaseClients == {"empty", "none"}

\* The client matters only to a Database that holds a Supabase handle
ClientsOf(cfg) == IF "supabase" \in cfg THEN SupabaseClients ELSE {"empty"}

\* rows WHERE query_lower = q AND language = language
Matching(rows, q, language) ==
    {r \in rows : r.query_lower = q /\ r.language = language}

\* ORDER BY updated_at DESC LIMIT 1: the rows the store may return
Latest(rows) == {r \in rows : \A o \in rows : o.updated_at <= r.updated_at}

\* the row with the smallest id (first in insertion order)
First(rows) == CHOOSE r \in rows : \A o \in rows : r.id <= o.id

\* AUTO_INCREMENT / generated id of a new row
NewId(rows) == IF rows = {} THEN 1
               ELSE 1 + (CHOOSE m \in {r.id : r \in rows} : \A r \in rows : r.id <= m)

NewRow(rows, query, q, language, answer, category, now) ==
    [id |-> NewId(rows), query |-> query, query_lower |-> q, language |-> language,
     answer |-> answer, category |-> category, hit_count |-> 1, updated_at |-> now]

\* get_cached_response, line 135: q = query.lower().strip()
GetKey(query) == strip(lower(query))

\* cache_response, line 165: q = query.lower().strip()
PutKey(query) == strip(lower(query))

CacheView_DropCategory(r) == [answer |-> r.answer, category |-> "None"]

\* {"answer": row["answer"], "category": row.get("category")}
CacheView(r) == [answer |-> r.answer, category |-> r.category]

\* one store's lookup in get_cached_response: the dicts it may return (none when
\* no row matches)
StoreGet(rows, q, language) ==
    {CacheView(r) : r \in Latest(Matching(rows, q, language))}

get_cached_response_SupabaseOnly(cfg, st, query, language, failing) ==
    LET q == GetKey(query)
        found(s) == IF s \in cfg /\ s \notin failing
                    THEN StoreGet(st[s], q, language) ELSE {}
    IN  IF found("supabase") /= {} THEN {Some(v) : v \in found("supabase")}
        ELSE {None}

\* get_cached_response: the stores are consulted in the order supabase, mongodb,
\* mysql; a store whose call raises (failing) is skipped by its except clause.
\* The value is the set of results the call may return.
get_cached_response(cfg, st, query, language, failing) ==
    LET q == GetKey(query)
        found(s) == IF s \in cfg /\ s \notin failing
                    THEN StoreGet(st[s], q, language) ELSE {}
    IN  IF found("supabase") /= {} THEN {Some(v) : v \in found("supabase")}
        ELSE IF found("mongodb") /= {} THEN {Some(v) : v \in found("mongodb")}
        ELSE IF found("mysql") /= {} THEN {Some(v) : v \in found("mysql")}
        ELSE {None}

\* cache_response on Supabase: select(id, hit_count).maybe_single(), then update
\* by id or insert.  maybe_single raises when several rows match; the except
\* clause then drops the write.  With no matching row a client that returns
\* None makes `r.data` raise, and the except clause ends the branch with nothing
\* inserted; a client that returns empty data takes the `else: insert`.
SupabasePut(rows, query, q, language, answer, category, now) ==
    LET m == Matching(rows, q, language)
    IN  IF Cardinality(m) > 1 THEN rows
        ELSE IF m /= {}
        THEN LET r == First(m)
             IN  (rows \ {r}) \cup
                 {[r EXCEPT !.answer = answer, !.category = category,
                            !.hit_count = r.hit_count + 1, !.updated_at = now]}
        ELSE IF sbclient = "none" THEN rows
        ELSE rows \cup {NewRow(rows, query, q, language, answer, category, now)}

\* the document r after $set {query, answer, category, updated_at} and
\* $inc {hit_count: 1}, which MongoDB applies to one document atomically
MongoUpdated(r, query, answer, category, now) ==
    [r EXCEPT !.query = query, !.answer = answer, !.category = category,
              !.hit_count = r.hit_count + 1, !.updated_at = now]

\* cache_response on MongoDB with no other call in between:
\* update_one(filter, $set/$inc/$setOnInsert, upsert)
MongoPut(rows, query, q, language, answer, category, now) ==
    LET m == Matching(rows, q, language)
    IN  IF m /= {}
        THEN LET r == First(m)
             IN  (rows \ {r}) \cup {MongoUpdated(r, query, answer, category, now)}
        ELSE rows \cup {NewRow(rows, query, q, language, answer, category, now)}

\* cache_response on MySQL: SELECT id ... LIMIT 1, then UPDATE by id or INSERT
MySQLPut(rows, query, q, language, answer, category, now) ==
    LET m == Matching(rows, q, language)
    IN  IF m /= {}
        THEN LET r == First(m)
             IN  (rows \ {r}) \cup
                 {[r EXCEPT !.answer = answer, !.category = category,
                            !.hit_count = r.hit_count + 1, !.updated_at = now]}
        ELSE rows \cup {NewRow(rows, query, q, language, answer, category, now)}

cache_response_AbortOnFailure(cfg, st, query, language, answer, category, now, failing) ==
    LET q == PutKey(query)
        ok(s) == s \in cfg /\ failing = {}
    IN  [s \in StoreNames |->
           IF ~ok(s) THEN st[s]
           ELSE IF s = "supabase"
                THEN SupabasePut(st[s], query, q, language, answer, category, now)
           ELSE IF s = "mongodb"
                THEN MongoPut(st[s], query, q, language, answer, category, now)
           ELSE MySQLPut(st[s], query, q, language, answer, category, now)]

\* cache_response: every configured store is written; a store whose call raises
\* (failing) is left as it was by its except clause.  The value is the new table
\* contents.
cache_response(cfg, st, query, language, answer, category, now, failing) ==
    LET q == PutKey(query)
        ok(s) == s \in cfg /\ s \notin failing
    IN  [s \in StoreNames |->
           IF ~ok(s) THEN st[s]
           ELSE IF s = "supabase"
                THEN SupabasePut(st[s], query, q, language, answer, category, now)
           ELSE IF s = "mongodb"
                THEN MongoPut(st[s], query, q, language, answer, category, now)
           ELSE MySQLPut(st[s], query, q, language, answer, category, now)]

----------------------------------------------------------------------------
(* main.py: the static mock answer *)

\* `if x:` for an Optional[str]
Truthy(o) == ~IsNone(o) /\ Get(o) /= <<>>

kw_rice == <<"r","i","c","e">>
kw_wheat == <<"w","h","e","a","t">>
kw_pest == <<"p","e","s","t">>
kw_fertilizer == <<"f","e","r","t","i","l","i","z","e","r">>

_get_mock_answer_NoFallback(query) ==
    [answer |-> <<>>, category |-> "General Agriculture"]

\* _get_mock_answer: the first key of `mocks` (rice, wheat, pest, fertilizer)
\* contained in query.lower(), else the generic answer quoting the query
_get_mock_answer(query) ==
    LET q == lower(query)
    IN  IF Contains(kw_rice, q)
        THEN [answer |-> <<"Rice cultivation requires well-drained soil (pH 5-6.5). Plant June-July. Use 20-25 kg seeds/ha. NPK 100:50:50 in split doses. Keep 5-7 cm water depth.">>,
              category |-> "Crops & Cultivation"]
        ELSE IF Contains(kw_wheat, q)
        THEN [answer |-> <<"Wheat: loamy soil pH 6-7.5. Sow Nov-Dec. 100-125 kg seeds/ha. Apply 120 kg N, 60 kg P2O5, 40 kg K2O. Harvest at 20-25% moisture.">>,
              category |-> "Crops & Cultivation"]
        ELSE IF Contains(kw_pest, q)
        THEN [answer |-> <<"Use IPM. Identify pests early. Neem-based organic pesticides first. Rotate crops, remove residues, keep field clean.">>,
              category |-> "Pest Management"]
        ELSE IF Contains(kw_fertilizer, q)
        THEN [answer |-> <<"Apply NPK based on soil test. 4:2:1 ratio often works. N in split doses: 50% sowing, 25% tillering, 25% flowering. Use compost.">>,
              category |-> "Fertilizers"]
        ELSE [answer |-> <<"Thanks for your question about '">> \o query
                         \o <<"'. Visit your nearest Krishi Vigyan Kendra (KVK) for region-specific guidance.">>,
              category |-> "General Agriculture"]

----------------------------------------------------------------------------
(* gemini_client.py, openai_client.py, ollama_client.py *)

\* What one network call of a backend does: it raises, or the response carries
\* a text (None and "" are both the empty text: the code tests truthiness only).
Raises == [kind |-> "raise", text |-> <<>>]
Returns(t) == [kind |-> "text", text |-> t]

\* gemini_client.generate, lines 39-62: model_names is tried in order; the first
\* call whose response.text is truthy returns response.text.strip()
model_names == <<"GEMINI_MODEL", "gemini-2.0-flash", "gemini-1.5-flash", "gemini-flash-latest">>

gemini_loop_NoRetry(outs, i) ==
    IF outs[i].kind = "text" /\ outs[i].text /= <<>> THEN Some(strip(outs[i].text))
    ELSE None

RECURSIVE gemini_loop(_, _)
gemini_loop(outs, i) ==
    IF i > Len(model_names) THEN None
    ELSE IF outs[i].kind = "text" /\ outs[i].text /= <<>> THEN Some(strip(outs[i].text))
    ELSE gemini_loop(outs, i + 1)

\* the model names generate_content is called with, in call order, from the
\* i-th name on: the loop ends at the first call whose response.text is truthy
RECURSIVE gemini_calls(_, _)
gemini_calls(outs, i) ==
    IF i > Len(model_names) THEN <<>>
    ELSE IF outs[i].kind = "text" /\ outs[i].text /= <<>> THEN <<model_names[i]>>
    ELSE <<model_names[i]>> \o gemini_calls(outs, i + 1)

\* gemini_client.generate; outs[i] is what the call with model_names[i] does
gemini_generate(client, outs) == IF ~client THEN None ELSE gemini_loop(outs, 1)

\* `x or None` for a str
OrNone(t) == IF t = <<>> THEN None ELSE Some(t)

\* openai_client.generate: content.strip() or None; None on any exception
\* (a None content raises AttributeError inside the try)
openai_generate(client, out) ==
    IF ~client THEN None
    ELSE IF out.kind = "raise" THEN None
    ELSE OrNone(strip(out.text))

\* ollama_client.generate: out.get("response", "").strip() or None
ollama_generate(out) ==
    IF out.kind = "raise" THEN None ELSE OrNone(strip(out.text))

----------------------------------------------------------------------------
(* main.py: the three backend adapters *)

\* _gemini_answer; avail is gemini_client.is_available()
_gemini_answer(avail, outs) ==
    IF ~avail THEN None
    ELSE LET r == gemini_generate(TRUE, outs)
         IN  IF Truthy(r)
             THEN Some([answer |-> strip(Get(r)), category |-> "AI Assistant",
                        source |-> "gemini"])
             ELSE None

_openai_answer_GeminiTag(avail, out) ==
    IF ~avail THEN None
    ELSE LET r == openai_generate(TRUE, out)
         IN  IF Truthy(r)
             THEN Some([answer |-> strip(Get(r)), category |-> "AI Assistant",
                        source |-> "gemini"])
             ELSE None

\* _openai_answer; avail is openai_client.is_available()
_openai_answer(avail, out) ==
    IF ~avail THEN None
    ELSE LET r == openai_generate(TRUE, out)
         IN  IF Truthy(r)
             THEN Some([answer |-> strip(Get(r)), category |-> "AI Assistant",
                        source |-> "openai"])
             ELSE None

\* _ollama_answer; avail is ollama_client.is_available() (the /api/tags probe)
_ollama_answer(avail, out) ==
    IF ~avail THEN None
    ELSE LET r == ollama_generate(out)
         IN  IF Truthy(r)
             THEN Some([answer |-> strip(Get(r)), category |-> "AI Assistant",
                        source |-> "ollama"])
             ELSE None

----------------------------------------------------------------------------
(* model.py: RAGPipeline *)

\* self.documents: the corpus file is not part of the sources; two documents
\* stand for it.  A content is a str, one character per piece: the first is
\* "Rice\n\n sow \n", the second is empty.
documents == << [title |-> "Rice Cultivation",
                 content |-> <<"R", "i", "c", "e", "\n", "\n", " ", "s", "o", "w", " ", "\n">>],
                [title |-> "Field Notes", content |-> <<>>] >>

categories == <<
    [category |-> "Crops & Cultivation",
     keywords |-> << <<"p","l","a","n","t">>, <<"c","r","o","p">>, <<"c","u","l","t","i","v","a","t","e">>, <<"s","o","w">>, <<"h","a","r","v","e","s","t">>, <<"r","i","c","e">>, <<"w","h","e","a","t">>, <<"c","o","t","t","o","n">> >>],
    [category |-> "Pest Management",
     keywords |-> << <<"p","e","s","t">>, <<"i","n","s","e","c","t">>, <<"d","i","s","e","a","s","e">>, <<"c","o","n","t","r","o","l">>, <<"a","p","h","i","d">>, <<"b","o","r","e","r">> >>],
    [category |-> "Fertilizers",
     keywords |-> << <<"f","e","r","t","i","l","i","z","e","r">>, <<"n","p","k">>, <<"u","r","e","a">>, <<"n","u","t","r","i","e","n","t">>, <<"m","a","n","u","r","e">> >>],
    [category |-> "Government Schemes",
     keywords |-> << <<"s","c","h","e","m","e">>, <<"p","m","-","k","i","s","a","n">>, <<"i","n","s","u","r","a","n","c","e">>, <<"c","r","e","d","i","t">>, <<"s","u","b","s","i","d","y">> >>] >>

RECURSIVE detect_category_from(_, _)
detect_category_from(query_lower, i) ==
    IF i > Len(categories) THEN "General Agriculture"
    ELSE IF AnyWord(categories[i].keywords, query_lower) THEN categories[i].category
    ELSE detect_category_from(query_lower, i + 1)

\* RAGPipeline._detect_category
_detect_category(query) == detect_category_from(lower(query), 1)

\* RAGPipeline._generate_mock_response: keys in the order rice, pest, fertilizer,
\* wheat
_generate_mock_response(query) ==
    LET query_lower == lower(query)
        hit(a) == [answer |-> <<a>>, category |-> _detect_category(query), sources |-> <<>>]
    IN  IF Contains(kw_rice, query_lower)
        THEN hit("Rice cultivation requires well-drained soil with pH 5-6.5. Plant during monsoon season (June-July). Use 20-25 kg seeds per hectare. Apply NPK fertilizer (100:50:50 kg/ha) in split doses. Maintain 5-7 cm water depth during growth.")
        ELSE IF Contains(kw_pest, query_lower)
        THEN hit("For pest control, use integrated pest management (IPM). Identify pests early. Use neem-based organic pesticides as first line of defense. Rotate crops to break pest cycles. Maintain field hygiene.")
        ELSE IF Contains(kw_fertilizer, query_lower)
        THEN hit("Apply fertilizers based on soil test results. For most crops, NPK ratio of 4:2:1 works well. Apply nitrogen in split doses - 50% at sowing, 25% at tillering, 25% at flowering. Use organic compost to improve soil health.")
        ELSE IF Contains(kw_wheat, query_lower)
        THEN hit("Wheat grows best in loamy soil with pH 6-7.5. Sow in November-December. Use 100-125 kg seeds per hectare. Apply 120 kg N, 60 kg P2O5, 40 kg K2O per hectare. Harvest when grains are hard and moisture is 20-25%.")
        ELSE [answer |-> <<"Thank you for your question about '">> \o query
                         \o <<"'. For detailed agricultural advice, please consult your local agricultural extension officer or visit the nearest Krishi Vigyan Kendra (KVK). They can provide region-specific guidance based on your soil type and climate conditions.">>,
              category |-> "General Agriculture", sources |-> <<>>]

\* "\n".join(lines)
RECURSIVE JoinLines(_)
JoinLines(lines) ==
    IF lines = <<>> THEN <<>>
    ELSE IF Len(lines) = 1 THEN lines[1]
    ELSE lines[1] \o <<"\n">> \o JoinLines(Tail(lines))

\* str.split('\n'): the list of the lines of s, one more than its newlines
RECURSIVE SplitLines(_, _)
SplitLines(s, line) ==
    IF s = <<>> THEN <<line>>
    ELSE IF Head(s) = "\n" THEN <<line>> \o SplitLines(Tail(s), <<>>)
    ELSE SplitLines(Tail(s), Append(line, Head(s)))

\* [line.strip() for line in lines if line.strip()]
RECURSIVE StripNonBlank(_)
StripNonBlank(lines) ==
    IF lines = <<>> THEN <<>>
    ELSE IF strip(Head(lines)) /= <<>>
    THEN <<strip(Head(lines))>> \o StripNonBlank(Tail(lines))
    ELSE StripNonBlank(Tail(lines))

\* str.startswith("To"), for a str with one character per piece
StartsWithTo(s) == Len(s) >= 2 /\ s[1] = "T" /\ s[2] = "o"

\* RAGPipeline._format_agricultural_answer: the first 10 lines of the content,
\* the blank ones dropped and the others stripped, joined with newlines, behind
\* the lead-in unless the text starts with "To".  content is a str with one
\* character per piece.
_format_agricultural_answer(query, content) ==
    LET lines == SplitLines(content, <<>>)
        formatted == StripNonBlank(SubSeq(lines, 1, IF Len(lines) < 10 THEN Len(lines) ELSE 10))
        answer == JoinLines(formatted)
    IN  IF StartsWithTo(answer) THEN answer
        ELSE <<"To address your question about '">> \o query \o <<"':", "\n", "\n">> \o answer

\* RAGPipeline._generate_answer
_generate_answer(query, context_docs) ==
    IF context_docs /= <<>> /\ context_docs[1].content /= <<>>
    THEN _format_agricultural_answer(query, context_docs[1].content)
    ELSE _generate_mock_response(query).answer

\* self.documents[idx] for the idx of indices[0] that pass `idx < len(documents)`;
\* a negative idx indexes from the end of the list.  The value is the list
\* relevant_docs, or None when an index raises IndexError.
RECURSIVE relevant_docs(_, _)
relevant_docs(indices, acc) ==
    IF indices = <<>> THEN Some(acc)
    ELSE LET idx == Head(indices)
             n == Len(documents)
         IN  IF ~(idx < n) THEN relevant_docs(Tail(indices), acc)
             ELSE IF idx >= 0 THEN relevant_docs(Tail(indices), Append(acc, documents[idx + 1]))
             ELSE IF idx >= -n THEN relevant_docs(Tail(indices), Append(acc, documents[n + idx + 1]))
             ELSE None

\* RAGPipeline.query.  search is what encode + index.search do: they raise, or
\* return indices[0].
SearchRaises == [kind |-> "raise", indices |-> <<>>]
SearchReturns(ix) == [kind |-> "indices", indices |-> ix]

rag_pipeline_query_EmptyOnFailure(index_loaded, query, search) ==
    IF ~index_loaded THEN _generate_mock_response(query)
    ELSE IF search.kind = "raise"
    THEN [answer |-> <<>>, category |-> "General Agriculture", sources |-> <<>>]
    ELSE LET docs == relevant_docs(search.indices, <<>>)
         IN  IF IsNone(docs) THEN _generate_mock_response(query)
             ELSE [answer |-> _generate_answer(query, Get(docs)),
                   category |-> _detect_category(query),
                   sources |-> [i \in 1..(IF Len(Get(docs)) < 3 THEN Len(Get(docs)) ELSE 3)
                                  |-> Get(docs)[i].title]]

\* RAGPipeline.query; an exception anywhere in the try block (encode, search,
\* answer synthesis) is SearchRaises, an IndexError of documents[idx] is the
\* None of relevant_docs
rag_pipeline_query(index_loaded, query, search) ==
    IF ~index_loaded THEN _generate_mock_response(query)
    ELSE IF search.kind = "raise" THEN _generate_mock_response(query)
    ELSE LET docs == relevant_docs(search.indices, <<>>)
         IN  IF IsNone(docs) THEN _generate_mock_response(query)
             ELSE [answer |-> _generate_answer(query, Get(docs)),
                   category |-> _detect_category(query),
                   sources |-> [i \in 1..(IF Len(Get(docs)) < 3 THEN Len(Get(docs)) ELSE 3)
                                  |-> Get(docs)[i].title]]

----------------------------------------------------------------------------
(* main.py: ask_question, one action per step of the handler *)

\* Request slots: a slot holds one /ask request from its receipt to its response.
Slots == {1, 2}
\* Spec serves the requests one after another, in slot 1.
SeqSlots == {1}

\* The texts a caller sends as `query`
Queries == { <<" ", "R", "i", "c", "e", " ">>,
             <<"h", "o", "w">> }

\* The values a caller sends as `language`
LanguageHints == {"en", "auto", "hi"}

\* The values a caller sends as `season` (Optional[str])
RequestSeasons == {None}

\* datetime.now().month at the time of the requests
AskMonths == {11}

\* The texts a backend's response may carry
RawTexts == { <<>>, <<" ">>, <<" ", "o", "k", "\n">> }
GenOutcomes == {Raises} \cup {Returns(t) : t \in RawTexts}

\* What one call of gemini_client.generate's loop may do
GeminiOutcomes == {Raises, Returns(<<" ">>), Returns(<<" ", "o", "k", "\n">>)}

\* What encode + index.search may do for top_k = 3 (FAISS pads with -1)
SearchOutcomes == {SearchRaises} \cup
    {SearchReturns(ix) : ix \in {<<0, 1, -1>>, <<1, 0, -1>>}}

ResolveLanguage_DetectedWins(hint, query) ==
    IF hint = "auto" \/ hint = "mixed" THEN detect_language(query) ELSE hint

\* ask_question, lines 307-313
ResolveLanguage(hint, query) ==
    IF hint = "auto" \/ hint = "mixed"
    THEN LET detected == detect_language(query)
         IN  IF hint = "mixed" \/ detected = "mixed" THEN "mixed" ELSE detected
    ELSE hint

\* ask_question, lines 329-334
QueryForModel(query, lg) ==
    IF lg \notin {"mixed", "en", "auto"} THEN translate_text(query, lg, "en") ELSE query

\* ask_question, lines 364-367
RagQuery(lg, q, c) ==
    IF lg = "mixed"
    THEN <<"User question (mixed language): ">> \o q \o <<". Context: ">> \o c
         \o <<". Provide answer in the same language mix.">>
    ELSE IF c /= <<>> THEN q \o <<". Context: ">> \o c ELSE q

ResultSource_DefaultMock(r) == IF "source" \in DOMAIN r THEN r.source ELSE "mock"

\* result.get("source", "local")
ResultSource(r) == IF "source" \in DOMAIN r THEN r.source ELSE "local"

\* ask_question, lines 374-378
FinalAnswer(r, lg) ==
    IF lg \notin {"en", "mixed", "auto"} /\ ResultSource(r) \notin {"ollama", "openai", "gemini"}
    THEN translate_text(r.answer, "en", lg)
    ELSE r.answer

\* a log entry: the collaborator invoked and, for a backend whose adapter returned
\* an answer, the text of the response the answer was built from
Call(comp, raw) == [comp |-> comp, raw |-> raw]

\* the index of the model whose call gemini_client.generate returns from (0: none)
RECURSIVE gemini_winner(_, _)
gemini_winner(outs, i) ==
    IF i > Len(model_names) THEN 0
    ELSE IF outs[i].kind = "text" /\ outs[i].text /= <<>> THEN i
    ELSE gemini_winner(outs, i + 1)

NoRequest == [query |-> <<>>, language |-> "en", season |-> None]

\* lines 307-336: resolve the language, look the query up in the cache; a hit
\* returns at once, a miss prepares the mock answer and enters the chain
AskReceiveOn(p, failing, st) ==
    /\ \E query \in Queries, language \in LanguageHints, season \in RequestSeasons,
          month \in AskMonths :
         \E lg \in {ResolveLanguage(language, query)},
            season_used \in {IF IsNone(season) \/ Get(season) = ""
                             THEN get_indian_season(month) ELSE Get(season)} :
             \E cached_response \in get_cached_response(dbcfg, st, query, lg, failing) :
               /\ req' = [req EXCEPT ![p] = [query |-> query, language |-> language,
                                             season |-> season]]
               /\ lang' = [lang EXCEPT ![p] = lg]
               /\ ctx' = [ctx EXCEPT ![p] = build_context_prompt(Some(season_used), month)]
               /\ calls' = [calls EXCEPT ![p] = <<Call("cache_get", None)>>]
               /\ puts' = [puts EXCEPT ![p] = <<>>]
               /\ IF ~IsNone(cached_response)
                  THEN /\ resp' = [resp EXCEPT ![p] =
                                     Some([answer |-> Get(cached_response).answer,
                                           source |-> "cache",
                                           category |-> Get(cached_response).category])]
                       /\ pc' = [pc EXCEPT ![p] = "done"]
                       /\ producer' = [producer EXCEPT ![p] = "cache"]
                       /\ qfm' = [qfm EXCEPT ![p] = <<>>]
                       /\ result' = [result EXCEPT ![p] = None]
                  ELSE /\ nmiss < MaxMisses
                       /\ resp' = [resp EXCEPT ![p] = None]
                       /\ pc' = [pc EXCEPT ![p] = "gemini"]
                       /\ producer' = [producer EXCEPT ![p] = "mock"]
                       /\ qfm' = [qfm EXCEPT ![p] = QueryForModel(query, lg)]
                       /\ result' = [result EXCEPT ![p] =
                                       Some(_get_mock_answer(QueryForModel(query, lg)))]
               /\ nmiss' = IF IsNone(cached_response) THEN nmiss + 1 ELSE nmiss
    /\ ans' = [ans EXCEPT ![p] = <<>>]
    /\ UNCHANGED <<sbclient, dbcfg, store, clock, shadow>>

\* the handler is entered by a worker that serves no request, and every store
\* is looked up as it is now
AskReceiveWith(p, failing) ==
    /\ pc[p] \in {"idle", "done"}
    /\ AskReceiveOn(p, failing, store)
    /\ UNCHANGED probe

\* the lookup raises in any subset of the configured stores
AskReceive(p) ==
    \E failing \in SUBSET dbcfg : AskReceiveWith(p, failing) /\ UNCHANGED dbop

ChainNext_AlwaysContinue(out, next) == next

\* lines 342-357: `if x_out: result = x_out` ends the chain, `else:` tries the
\* next source
ChainNext(out, next) == IF ~IsNone(out) THEN "cache" ELSE next

\* (the values an action computes once are bound with \E over a one-element
\* set)
\* the chain moves on with `out`, the Optional dict of a backend adapter
BackendStep(p, comp, raw, out, next) ==
    /\ calls' = [calls EXCEPT ![p] = Append(@, Call(comp, raw))]
    /\ IF ~IsNone(out)
       THEN /\ result' = [result EXCEPT ![p] = out]
            /\ producer' = [producer EXCEPT ![p] = comp]
       ELSE UNCHANGED <<result, producer>>
    /\ pc' = [pc EXCEPT ![p] = ChainNext(out, next)]
    /\ UNCHANGED <<sbclient, dbcfg, store, clock, nmiss, req, lang, qfm, ctx, ans, resp, puts,
                   dbop, shadow, probe>>

\* lines 339-343
AskGemini(p) ==
    /\ pc[p] = "gemini"
    /\ \E avail \in BOOLEAN, outs \in [1..Len(model_names) -> GeminiOutcomes] :
         \E res \in {_gemini_answer(avail, outs)} :
           \E raw \in {IF IsNone(res) THEN None
                        ELSE Some(outs[gemini_winner(outs, 1)].text)} :
             BackendStep(p, "gemini", raw, res, "openai")

\* lines 346-350
AskOpenAI(p) ==
    /\ pc[p] = "openai"
    /\ \E avail \in BOOLEAN, out \in GenOutcomes :
         \E res \in {_openai_answer(avail, out)} :
           \E raw \in {IF IsNone(res) THEN None ELSE Some(out.text)} :
             BackendStep(p, "openai", raw, res, "ollama")

\* lines 353-357
AskOllama(p) ==
    /\ pc[p] = "ollama"
    /\ \E avail \in BOOLEAN, out \in GenOutcomes :
         \E res \in {_ollama_answer(avail, out)} :
           \E raw \in {IF IsNone(res) THEN None ELSE Some(out.text)} :
             BackendStep(p, "ollama", raw, res, "rag")

\* line 360, condition false: rag_pipeline is None or its index is not loaded
AskRagSkip(p) ==
    /\ pc[p] = "rag"
    /\ pc' = [pc EXCEPT ![p] = "cache"]
    /\ UNCHANGED <<sbclient, dbcfg, store, clock, nmiss, req, lang, qfm, ctx, result, ans, resp,
                   calls, puts, producer, dbop, shadow, probe>>

\* lines 360-372, condition true
AskRagQuery(p) ==
    /\ pc[p] = "rag"
    /\ \E search \in SearchOutcomes :
         \E rag_result \in {rag_pipeline_query(TRUE, RagQuery(lang[p], qfm[p], ctx[p]),
                                                search)} :
             /\ calls' = [calls EXCEPT ![p] = Append(@, Call("retrieval", None))]
             /\ IF rag_result.answer /= <<>>
                THEN /\ result' = [result EXCEPT ![p] = Some(rag_result)]
                     /\ producer' = [producer EXCEPT ![p] = "retrieval"]
                ELSE UNCHANGED <<result, producer>>
    /\ pc' = [pc EXCEPT ![p] = "cache"]
    /\ UNCHANGED <<sbclient, dbcfg, store, clock, nmiss, req, lang, qfm, ctx, ans, resp, puts,
                   dbop, shadow, probe>>

CacheCallArgs_NoCategory(query, lg, a, r) ==
    [query |-> query, language |-> lg, answer |-> a, category |-> "None"]

\* lines 380-385: the arguments of db.cache_response
CacheCallArgs(query, lg, a, r) ==
    [query |-> query, language |-> lg, answer |-> a, category |-> r.category]

\* lines 374-385: the final answer is written to the cache
AskCache(p) ==
    /\ pc[p] = "cache"
    /\ \E failing \in SUBSET dbcfg :
         \E args \in {CacheCallArgs(req[p].query, lang[p],
                                    FinalAnswer(Get(result[p]), lang[p]),
                                    Get(result[p]))} :
             /\ ans' = [ans EXCEPT ![p] = args.answer]
             /\ store' = cache_response(dbcfg, store, args.query, args.language,
                                        args.answer, args.category, clock + 1, failing)
             /\ puts' = [puts EXCEPT ![p] = Append(@, [args |-> args, failing |-> failing])]
    /\ clock' = clock + 1
    /\ calls' = [calls EXCEPT ![p] = Append(@, Call("cache_put", None))]
    /\ pc' = [pc EXCEPT ![p] = "return"]
    /\ UNCHANGED <<sbclient, dbcfg, nmiss, req, lang, qfm, ctx, result, resp, producer, dbop, shadow, probe>>

\* lines 387-391
AskReturn(p) ==
    /\ pc[p] = "return"
    /\ resp' = [resp EXCEPT ![p] = Some([answer |-> ans[p],
                                         source |-> ResultSource(Get(result[p])),
                                         category |-> Get(result[p]).category])]
    /\ pc' = [pc EXCEPT ![p] = "done"]
    /\ UNCHANGED <<sbclient, dbcfg, store, clock, nmiss, req, lang, qfm, ctx, result, ans, calls,
                   puts, producer, dbop, shadow, probe>>

NoProbe == [fn |-> "none", arg |-> <<>>, out |-> <<>>]
NoDbOp == [op |-> "none", query |-> <<>>, language |-> "en", failing |-> {}, res |-> None]

Init ==
    /\ dbcfg \in DbConfigs
    /\ sbclient \in ClientsOf(dbcfg)
    /\ store = [s \in StoreNames |-> {}]
    /\ clock = 0
    /\ nmiss = 0
    /\ pc = [p \in Slots |-> "idle"]
    /\ req = [p \in Slots |-> NoRequest]
    /\ lang = [p \in Slots |-> "en"]
    /\ qfm = [p \in Slots |-> <<>>]
    /\ ctx = [p \in Slots |-> <<>>]
    /\ result = [p \in Slots |-> None]
    /\ ans = [p \in Slots |-> <<>>]
    /\ resp = [p \in Slots |-> None]
    /\ calls = [p \in Slots |-> <<>>]
    /\ puts = [p \in Slots |-> <<>>]
    /\ producer = [p \in Slots |-> "none"]
    /\ dbop = NoDbOp
    /\ shadow = <<>>
    /\ probe = NoProbe

Next ==
    \E p \in SeqSlots :
        \/ AskReceive(p)
        \/ AskGemini(p)
        \/ AskOpenAI(p)
        \/ AskOllama(p)
        \/ AskRagSkip(p)
        \/ AskRagQuery(p)
        \/ AskCache(p)
        \/ AskReturn(p)

Spec == Init /\ [][Next]_vars

----------------------------------------------------------------------------
(* database.py used directly: cache_response and get_cached_response called on
   a Database, as test_mongodb.py does *)

\* The arguments the direct calls are made with
DbQueries == { <<" ", "R", "i", "c", "e", " ">>, <<"r", "i", "c", "e">> }
DbLanguages == {"en", "hi"}
\* (answer, category) pairs; the category "None" stands for Python's None
DbEntries == { [answer |-> <<"a1">>, category |-> "Crop Management"],
               [answer |-> <<"a2">>, category |-> "None"] }

\* The specification's cache key of a query text: the text with every cased
\* letter replaced by its lower-case form and the surrounding whitespace cut
\* off, written without the operators that model str.lower and str.strip.
Folded(c) == CASE c = "R" -> "r" [] c = "I" -> "i" [] c = "C" -> "c"
               [] c = "E" -> "e" [] OTHER -> c
Blank(c) == c \in {" ", "\n", "\t", "\r"}
Trimmed(t) ==
    LET keep == {i \in 1..Len(t) : ~Blank(t[i])}
    IN  IF keep = {} THEN <<>>
        ELSE SubSeq(t, CHOOSE i \in keep : \A j \in keep : i <= j,
                       CHOOSE i \in keep : \A j \in keep : j <= i)
NormalForm(q) == Trimmed([i \in 1..Len(q) |-> Folded(q[i])])
EntryKey(query, language) == <<NormalForm(query), language>>

\* History of the direct calls, per cache key: the arguments of the last put to
\* the key, whether every configured store took it ("clean") or some store's
\* call raised ("dirty"), the number n of puts made to the key and whether all
\* of them were clean.  A key no put was made to is not in the domain.
ShadowPut(sh, query, language, answer, category, failing) ==
    LET k == EntryKey(query, language)
    IN  [x \in DOMAIN sh \cup {k} |->
           IF x = k
           THEN [status |-> IF failing = {} THEN "clean" ELSE "dirty",
                 query |-> query, answer |-> answer, category |-> category,
                 n |-> IF k \in DOMAIN sh THEN sh[k].n + 1 ELSE 1,
                 allclean |-> failing = {} /\ (k \in DOMAIN sh => sh[k].allclean)]
           ELSE sh[x]]

\* db.cache_response(query, language, answer, category)
DbPut ==
    /\ clock < MaxDbPuts
    /\ \E query \in DbQueries, language \in DbLanguages, e \in DbEntries,
          failing \in SUBSET dbcfg :
         /\ store' = cache_response(dbcfg, store, query, language, e.answer,
                                    e.category, clock + 1, failing)
         /\ dbop' = [op |-> "put", query |-> query, language |-> language,
                     failing |-> failing, res |-> None]
         /\ shadow' = ShadowPut(shadow, query, language, e.answer, e.category, failing)
    /\ clock' = clock + 1
    /\ UNCHANGED <<sbclient, dbcfg, nmiss, pc, req, lang, qfm, ctx, result, ans, resp, calls,
                   puts, producer, probe>>

\* db.get_cached_response(query, language), every store answering (lookups
\* during which a store's call raises are those of AskReceive)
DbGet ==
    /\ \E query \in DbQueries, language \in DbLanguages, failing \in {{}} :
         \E res \in get_cached_response(dbcfg, store, query, language, failing) :
           dbop' = [op |-> "get", query |-> query, language |-> language,
                    failing |-> failing, res |-> res]
    /\ UNCHANGED <<sbclient, dbcfg, store, clock, nmiss, pc, req, lang, qfm, ctx, result, ans,
                   resp, calls, puts, producer, shadow, probe>>

\* db.close(): every handle is set to None; the tables of the stores stay as
\* they are
DbClose ==
    /\ dbcfg' = {}
    /\ dbop' = [op |-> "close", query |-> <<>>, language |-> "en", failing |-> {},
                res |-> None]
    /\ UNCHANGED <<sbclient, store, clock, nmiss, pc, req, lang, qfm, ctx, result, ans,
                   resp, calls, puts, producer, shadow, probe>>

NextDb == DbPut \/ DbGet \/ DbClose

SpecDb == Init /\ [][NextDb]_vars

----------------------------------------------------------------------------
(* Properties of /ask, checked under Spec *)

BackendNames == {"gemini", "openai", "ollama"}
Responded(p) == resp[p] /= None
Response(p) == Get(resp[p])
\* the log entries of component c in the request of slot p
Entries(p, c) == {i \in 1..Len(calls[p]) : calls[p][i].comp = c}
\* the backends of slot p's request whose adapter returned an answer
Answered(p) == {i \in 1..Len(calls[p]) :
                  calls[p][i].comp \in BackendNames /\ calls[p][i].raw /= None}

\* C1: on a cache miss the backends are invoked in the order gemini, openai,
\* ollama, each only directly after the one before it returned unavailable; once
\* a backend returns text no later backend and no retrieval is invoked, and the
\* response carries that text, trimmed of surrounding whitespace, with the
\* backend's name as source.
C1_FallbackOrder ==
    \A p \in Slots :
      LET log == calls[p]
      IN  /\ \A i \in 1..Len(log) :
               /\ log[i].comp = "gemini" => i = 2 /\ log[1].comp = "cache_get"
               /\ log[i].comp = "openai" => i = 3 /\ log[2] = Call("gemini", None)
               /\ log[i].comp = "ollama" => i = 4 /\ log[3] = Call("openai", None)
               /\ i \in Answered(p) =>
                    \A j \in (i + 1)..Len(log) :
                       log[j].comp \notin BackendNames \cup {"retrieval"}
          /\ (Responded(p) /\ Response(p).source /= "cache") => Entries(p, "gemini") = {2}
          /\ \A i \in Answered(p) :
               Responded(p) => /\ Response(p).answer = Trimmed(Get(log[i].raw))
                               /\ Response(p).source = log[i].comp

C1_Witness ==
    \E p \in Slots :
      /\ Responded(p)
      /\ calls[p] = << Call("cache_get", None), Call("gemini", None),
                       Call("openai", Some(<<" ", "o", "k", "\n">>)),
                       Call("cache_put", None) >>
      /\ Response(p).answer = <<"o", "k">>
      /\ Response(p).source = "openai"

\* C2: every /ask request ends with a response whose answer text is non-empty,
\* whatever the cache store, the three backends and retrieval do: a request
\* under way can always take its next step, and a finished one carries a
\* non-empty answer.
C2_AlwaysAnswers ==
    \A p \in SeqSlots :
      /\ pc[p] \notin {"idle", "done"} => ENABLED Next
      /\ pc[p] = "done" => /\ Responded(p)
                           /\ Response(p).answer /= <<>>
                           /\ \A i \in 1..Len(Response(p).answer) :
                                Response(p).answer[i] /= ""

\* every collaborator failed: the cache write raised, no backend answered and
\* the index search raised
C2_Witness ==
    \E p \in Slots :
      /\ pc[p] = "done"
      /\ Len(puts[p]) = 1 /\ puts[p][1].failing /= {}
      /\ Answered(p) = {}
      /\ Entries(p, "retrieval") /= {}
      /\ Response(p).answer /= <<>>

\* the log of a request in which all three backends returned unavailable and
\* the retrieval index was not loaded
DegradedLog == << Call("cache_get", None), Call("gemini", None), Call("openai", None),
                  Call("ollama", None), Call("cache_put", None) >>

\* C3 (as the code has it): when all three backends are unavailable and the
\* retrieval index is unavailable, the response is a success whose source is
\* `local` and whose answer is the non-empty static mock text.
C3_FullDegradationLocal ==
    \A p \in Slots :
      (Responded(p) /\ calls[p] = DegradedLog) =>
         /\ Response(p).source = "local"
         /\ Response(p).answer /= <<>>
         /\ producer[p] = "mock"

C3_Witness ==
    \E p \in Slots : Responded(p) /\ calls[p] = DegradedLog /\ Response(p).source = "local"

\* C3 as stated: in that case the source is `mock`.
C3_FullDegradationMock ==
    \A p \in Slots :
      (Responded(p) /\ calls[p] = DegradedLog) =>
         /\ Response(p).source = "mock"
         /\ Response(p).answer /= <<>>

\* the tags a static mock answer may carry: the one named for it, and the one
\* the handler gives it
MockTags == {"mock", "local"}

\* C4 as stated: the source names the component that produced the answer:
\* `cache` exactly for a cache hit, a backend's name exactly for that backend,
\* `retrieval` exactly for the retriever, and the mock tag exactly for the
\* static mock.
C4_ProvenanceNamesProducer ==
    \A p \in Slots :
      Responded(p) =>
        /\ (Response(p).source = "cache") <=> (producer[p] = "cache")
        /\ \A b \in BackendNames : (Response(p).source = b) <=> (producer[p] = b)
        /\ (Response(p).source = "retrieval") <=> (producer[p] = "retrieval")
        /\ (Response(p).source \in MockTags) <=> (producer[p] = "mock")

\* the rows of a store that hold the entry of (query, language)
EntryRows(rows, query, language) ==
    {r \in rows : NormalForm(r.query) = NormalForm(query) /\ r.language = language}

\* the step of slot p that answers a request from the cache
HitStep(p) == pc[p] \in {"idle", "done"} /\ pc'[p] = "done"

\* C5: a cache hit answers at once: the only collaborator call of the request
\* is the cache lookup, the response carries the answer and category of a stored
\* entry of the key with source `cache`, and the store is left as it was.
C5_CacheHit ==
    [][\A p \in Slots :
         HitStep(p) =>
           /\ store' = store /\ clock' = clock
           /\ calls'[p] = <<Call("cache_get", None)>>
           /\ puts'[p] = <<>>
           /\ resp'[p] /= None
           /\ Get(resp'[p]).source = "cache"
           /\ \E s \in dbcfg :
                \E r \in EntryRows(store[s], req'[p].query, lang'[p]) :
                   /\ Get(resp'[p]).answer = r.answer
                   /\ Get(resp'[p]).category = r.category]_vars

C5_Witness ==
    \E p \in Slots :
      /\ Responded(p) /\ Response(p).source = "cache"
      /\ calls[p] = <<Call("cache_get", None)>>
      /\ Response(p).category = "AI Assistant"
      /\ \E s \in dbcfg : \E r \in store[s] : r.hit_count = 1

\* C6: a request not answered from the cache calls the cache put exactly once,
\* before the response exists, with the raw query, the resolved language and the
\* answer and category the response carries.
C6_RespondAndCache ==
    \A p \in Slots :
      /\ pc[p] \in {"gemini", "openai", "ollama", "rag", "cache"} => puts[p] = <<>>
      /\ pc[p] = "return" => ~Responded(p) /\ Len(puts[p]) = 1
      /\ (Responded(p) /\ Response(p).source = "cache") => puts[p] = <<>>
      /\ (Responded(p) /\ Response(p).source /= "cache") =>
            /\ Len(puts[p]) = 1
            /\ Cardinality(Entries(p, "cache_put")) = 1
            /\ puts[p][1].args.query = req[p].query
            /\ puts[p][1].args.language = lang[p]
            /\ (req[p].language \notin {"auto", "mixed"} =>
                   puts[p][1].args.language = req[p].language)
            /\ puts[p][1].args.answer = Response(p).answer
            /\ puts[p][1].args.category = Response(p).category

C6_Witness ==
    \E p \in Slots :
      /\ Responded(p) /\ Response(p).source = "gemini"
      /\ Len(puts[p]) = 1
      /\ puts[p][1].args.answer = <<"o", "k">>
      /\ puts[p][1].args.query = <<" ", "R", "i", "c", "e", " ">>

\* C7: retrieval is invoked in a request only after gemini, openai and ollama
\* have each returned unavailable in that request.
C7_RetrievalLast ==
    \A p \in Slots :
      \A i \in Entries(p, "retrieval") :
        \A b \in BackendNames :
          \E j \in 1..(i - 1) : calls[p][j] = Call(b, None)

C7_Witness ==
    \E p \in Slots :
      /\ Entries(p, "retrieval") /= {}
      /\ Responded(p)
      /\ producer[p] = "retrieval"

----------------------------------------------------------------------------
(* Properties of the cache store, checked under SpecDb *)

LastKey == EntryKey(dbop.query, dbop.language)
CleanGet == dbop.op = "get" /\ dbop.failing = {} /\ dbcfg /= {}

\* C8: with a store available, a get of (q, lang) that follows put(q, lang, a, c)
\* with no later put on the key returns an entry whose answer is a.
C8_RoundTrip ==
    (/\ CleanGet
     /\ LastKey \in DOMAIN shadow
     /\ shadow[LastKey].status = "clean"
     /\ shadow[LastKey].query = dbop.query)
    => /\ dbop.res /= None
       /\ Get(dbop.res).answer = shadow[LastKey].answer

\* the second put on the key replaced the first answer, and the get returns it
C8_Witness ==
    /\ CleanGet
    /\ LastKey \in DOMAIN shadow
    /\ shadow[LastKey].status = "clean"
    /\ shadow[LastKey].query = dbop.query
    /\ shadow[LastKey].n = 2
    /\ dbop.res = Some([answer |-> <<"a2">>, category |-> "None"])
    /\ \E s \in dbcfg : \E r \in store[s] : r.hit_count = 2

\* the two parts of the upsert property: what one put does to each store that
\* takes it, and what n clean puts on a key add up to
PutStep == dbop'.op = "put" /\ clock' = clock + 1
C9_UpsertStep ==
    PutStep =>
      \A s \in dbcfg \ dbop'.failing :
        LET old == EntryRows(store[s], dbop'.query, dbop'.language)
            new == EntryRows(store'[s], dbop'.query, dbop'.language)
            e == shadow'[EntryKey(dbop'.query, dbop'.language)]
        IN  /\ Cardinality(new) = 1
            /\ store'[s] \ new = store[s] \ old
            /\ \A r \in new :
                 /\ r.answer = e.answer /\ r.category = e.category
                 /\ IF old = {} THEN r.hit_count = 1
                    ELSE \E o \in old : r.id = o.id /\ r.hit_count = o.hit_count + 1
C9_UpsertCount ==
    \A k \in DOMAIN shadow :
      shadow[k].allclean =>
        \A s \in dbcfg :
          LET rows == {r \in store[s] : EntryKey(r.query, r.language) = k}
          IN  /\ Cardinality(rows) = 1
              /\ \A r \in rows : r.hit_count = shadow[k].n /\ r.answer = shadow[k].answer

\* C9: put is an upsert.  In every store that takes the put, a key with no entry
\* gets one entry with hit counter 1; a key with an entry keeps that one entry,
\* with the new answer and category and the hit counter raised by exactly 1;
\* no other entry changes.  So after n puts on a key, all taken by every store,
\* each store holds one entry of the key with hit counter n and the last answer.
C9_Upsert == []C9_UpsertCount /\ [][C9_UpsertStep]_vars

\* two puts on one key: one entry, hit counter 2, the second answer stored
C9_Witness ==
    /\ dbop.op = "put"
    /\ dbcfg /= {}
    /\ shadow[LastKey].n = 2 /\ shadow[LastKey].allclean
    /\ \A s \in dbcfg :
         \E r \in store[s] : /\ r.hit_count = 2
                             /\ r.answer = shadow[LastKey].answer
                             /\ Cardinality(store[s]) = 1

\* C10: get and put key an entry on the lower-cased, trimmed query text and the
\* language.  Every stored row is filed under the normal form of its query; a
\* get returns the answer last put under the normal form of its query and its
\* language, whatever the spelling of the put; and a get in a language no put
\* was made in for that text finds nothing.
C10_Normalization ==
    /\ \A s \in dbcfg : \A r \in store[s] : r.query_lower = NormalForm(r.query)
    /\ CleanGet =>
         /\ (LastKey \in DOMAIN shadow /\ shadow[LastKey].status = "clean") =>
               dbop.res = Some([answer |-> shadow[LastKey].answer,
                                category |-> shadow[LastKey].category])
         /\ LastKey \notin DOMAIN shadow => dbop.res = None

\* the entry was put as " Rice " and is read as "rice" (or the reverse), while
\* the same text was put in the other language with another answer
C10_Witness ==
    /\ CleanGet
    /\ LastKey \in DOMAIN shadow
    /\ shadow[LastKey].status = "clean"
    /\ shadow[LastKey].query /= dbop.query
    /\ dbop.res /= None
    /\ \E k \in DOMAIN shadow :
         k /= LastKey /\ k[1] = LastKey[1] /\ shadow[k].answer /= shadow[LastKey].answer

----------------------------------------------------------------------------
(* /ask on a Database whose stores already hold an entry: the query_cache
   tables outlive the process, so a restarted backend finds the rows of
   earlier runs *)

\* the row an earlier run's cache_response made of its entry
SeedQuery == <<" ", "R", "i", "c", "e", " ">>
SeedRow == NewRow({}, SeedQuery, PutKey(SeedQuery), "en", <<"a1">>, "Crop Management", 0)
\* the tables that run left: cache_response of the entry at time 0 on empty
\* tables, with the configuration and the Supabase client of this run, so a
\* client that returns None on zero rows left the Supabase table empty
SeededStore ==
    cache_response(dbcfg, [s \in StoreNames |-> {}], SeedQuery, "en", <<"a1">>,
                   "Crop Management", 0, {})

InitSeeded ==
    /\ dbcfg \in DbConfigs
    /\ sbclient \in ClientsOf(dbcfg)
    /\ store = SeededStore
    /\ clock = 0
    /\ nmiss = 0
    /\ pc = [p \in Slots |-> "idle"]
    /\ req = [p \in Slots |-> NoRequest]
    /\ lang = [p \in Slots |-> "en"]
    /\ qfm = [p \in Slots |-> <<>>]
    /\ ctx = [p \in Slots |-> <<>>]
    /\ result = [p \in Slots |-> None]
    /\ ans = [p \in Slots |-> <<>>]
    /\ resp = [p \in Slots |-> None]
    /\ calls = [p \in Slots |-> <<>>]
    /\ puts = [p \in Slots |-> <<>>]
    /\ producer = [p \in Slots |-> "none"]
    /\ dbop = NoDbOp
    /\ shadow = <<>>
    /\ probe = NoProbe

SpecSeeded == InitSeeded /\ [][Next]_vars

----------------------------------------------------------------------------
(* Properties of /ask under store failures, checked under SpecSeeded *)

InFlight == {"gemini", "openai", "ollama", "rag", "cache", "return"}
\* the stores that hold an entry of the key of slot p's request
Holding(p) == {s \in dbcfg : EntryRows(store[s], req[p].query, lang[p]) /= {}}
\* the step of slot p that calls db.cache_response
CacheStep(p) == pc[p] = "cache" /\ pc'[p] = "return"

\* a request that went down the chain although a store held an entry of its
\* key: the lookup of that store raised and was taken as absent
C11_MaskedLookup ==
    \A p \in SeqSlots :
      /\ pc[p] \in InFlight => /\ ENABLED Next
                               /\ Len(calls[p]) >= 1
                               /\ calls[p][1] = Call("cache_get", None)
      /\ (pc[p] \in InFlight \ {"return"} /\ Holding(p) /= {}) =>
            /\ ~Responded(p)
            /\ result[p] /= None
      /\ pc[p] = "done" =>
            /\ Responded(p)
            /\ Response(p).answer /= <<>>
            /\ Response(p).source /= "cache" =>
                  /\ Len(puts[p]) = 1
                  /\ Response(p).answer = puts[p][1].args.answer
\* the stores whose branch of cache_response raises in a put: those whose call
\* fails, and Supabase when its client returns None for the key that has no row
RaisedIn(put) ==
    put.failing \cup
    {s \in dbcfg \cap {"supabase"} :
        sbclient = "none" /\ EntryRows(store[s], put.args.query, put.args.language) = {}}

\* a put in which stores raise: those stores keep their rows, every other
\* configured store takes the entry, and the handler goes on to its response
C11_DroppedPut ==
    \A p \in SeqSlots :
      CacheStep(p) =>
        LET put == puts'[p][1]
        IN  /\ put.failing \subseteq dbcfg
            /\ \A s \in StoreNames \ dbcfg : store'[s] = store[s]
            /\ \A s \in RaisedIn(put) : store'[s] = store[s]
            /\ \A s \in dbcfg \ RaisedIn(put) :
                 \E r \in EntryRows(store'[s], put.args.query, put.args.language) :
                    r.answer = put.args.answer
            /\ result'[p] = result[p]

\* C11: store failures never abort a request.  A lookup in which a store is
\* absent or raises counts as absent and the request goes down the fallback
\* chain; a put in which a store is absent or raises leaves that store alone,
\* still writes the others, and the request ends with its normal response.
C11_StoreFailuresContained == []C11_MaskedLookup /\ [][C11_DroppedPut]_vars

\* the lookup raised in both stores although each held the entry, the request
\* was answered by openai, and the put raised in supabase: supabase keeps the
\* old row, mongodb takes the answer, and the response carries it
C11_Witness ==
    \E p \in SeqSlots :
      /\ pc[p] = "done" /\ Responded(p)
      /\ Response(p).source = "openai"
      /\ dbcfg = {"supabase", "mongodb"}
      /\ puts[p][1].failing = {"supabase"}
      /\ store["supabase"] = {SeedRow}
      /\ \E r \in store["mongodb"] : r.hit_count = 2 /\ r.answer = Response(p).answer
      /\ Holding(p) = dbcfg

----------------------------------------------------------------------------
(* utils.py and main.py: the language router applied on its own *)

\* one character of every script detect_language knows, the two characters at
\* the border of the Devanagari and Bengali blocks, Latin letters that spell
\* the transliterated keywords "ho", "ke" and "ki", an upper-case letter, a
\* punctuation mark, a digit and the space
LangChars == {"h", "o", "k", "e", "E", "i", "?", "1", " ",
              "U+0915", "U+097F", "U+0980", "U+0995", "U+0A15", "U+0A95",
              "U+0B15", "U+0B95", "U+0C35", "U+0C95", "U+0D15"}
LangTexts == UNION {[1..n -> LangChars] : n \in 0..MaxTextLen}
\* values of AskRequest.language: the field is a str without validation
RouterHints == {"auto", "mixed", "en", "hi", "xx", ""}

InitLang ==
    /\ dbcfg = {}
    /\ sbclient \in ClientsOf(dbcfg)
    /\ store = [s \in StoreNames |-> {}]
    /\ clock = 0
    /\ nmiss = 0
    /\ pc = [p \in Slots |-> "idle"]
    /\ req = [p \in Slots |-> NoRequest]
    /\ lang = [p \in Slots |-> "en"]
    /\ qfm = [p \in Slots |-> <<>>]
    /\ ctx = [p \in Slots |-> <<>>]
    /\ result = [p \in Slots |-> None]
    /\ ans = [p \in Slots |-> <<>>]
    /\ resp = [p \in Slots |-> None]
    /\ calls = [p \in Slots |-> <<>>]
    /\ puts = [p \in Slots |-> <<>>]
    /\ producer = [p \in Slots |-> "none"]
    /\ dbop = NoDbOp
    /\ shadow = <<>>
    /\ \E hint \in RouterHints, text \in LangTexts :
         probe = [fn |-> "input", arg |-> [hint |-> hint, text |-> text], out |-> <<>>]

\* detect_language(text)
ApplyDetect ==
    /\ probe.fn = "input"
    /\ probe' = [fn |-> "detect_language", arg |-> probe.arg,
                 out |-> detect_language(probe.arg.text)]
    /\ UNCHANGED <<sbclient, dbcfg, store, clock, nmiss, pc, req, lang, qfm, ctx, result, ans,
                   resp, calls, puts, producer, dbop, shadow>>

\* lines 307-313 of ask_question on (request.language, request.query)
ApplyResolve ==
    /\ probe.fn = "input"
    /\ probe' = [fn |-> "resolve", arg |-> probe.arg,
                 out |-> ResolveLanguage(probe.arg.hint, probe.arg.text)]
    /\ UNCHANGED <<sbclient, dbcfg, store, clock, nmiss, pc, req, lang, qfm, ctx, result, ans,
                   resp, calls, puts, producer, dbop, shadow>>

NextLang == ApplyDetect \/ ApplyResolve

SpecLang == InitLang /\ [][NextLang]_vars

----------------------------------------------------------------------------
(* Properties of the language router, checked under SpecLang *)

\* The classification rule, on the scripts of the characters
ScriptOf(c) ==
    CASE c \in {"U+0915", "U+097F"} -> "Devanagari"
      [] c \in {"U+0980", "U+0995"} -> "Bengali"
      [] c = "U+0A15" -> "Gurmukhi"
      [] c = "U+0A95" -> "Gujarati"
      [] c = "U+0B15" -> "Odia"
      [] c = "U+0B95" -> "Tamil"
      [] c = "U+0C35" -> "Telugu"
      [] c = "U+0C95" -> "Kannada"
      [] c = "U+0D15" -> "Malayalam"
      [] c \in {"h", "o", "k", "e", "E", "i"} -> "Latin"
      [] OTHER -> "none"
ScriptsIn(t) == {ScriptOf(t[i]) : i \in 1..Len(t)} \ {"none"}
CodeOf(script) ==
    CASE script = "Devanagari" -> "hi" [] script = "Telugu" -> "te"
      [] script = "Tamil" -> "ta" [] script = "Bengali" -> "bn"
      [] script = "Gujarati" -> "gu" [] script = "Kannada" -> "kn"
      [] script = "Malayalam" -> "ml" [] script = "Odia" -> "or"
      [] script = "Gurmukhi" -> "pa"
\* the transliterated keywords that fit into the texts
ShortKeywords == { <<"h", "o">>, <<"k", "e">>, <<"k", "i">> }
HasKeyword(t) ==
    \E i \in 1..Len(t), w \in ShortKeywords :
       /\ i + Len(w) - 1 <= Len(t)
       /\ \A j \in 1..Len(w) : (IF t[i + j - 1] = "E" THEN "e" ELSE t[i + j - 1]) = w[j]
Classification(t) ==
    IF Cardinality(ScriptsIn(t)) >= 2 THEN "mixed"
    ELSE IF HasKeyword(t) /\ "Latin" \in ScriptsIn(t) THEN "mixed"
    ELSE IF \E s \in ScriptsIn(t) : s /= "Latin"
         THEN CodeOf(CHOOSE s \in ScriptsIn(t) : TRUE)
    ELSE "en"

\* C12: a hint of `mixed` resolves to `mixed` whatever the text; a hint of `auto`
\* resolves to the classification of the text; any other hint is the resolved
\* language as it stands, whatever the script of the text.
C12_ResolutionByHint ==
    probe.fn = "resolve" =>
      LET hint == probe.arg.hint
      IN  /\ hint = "mixed" => probe.out = "mixed"
          /\ hint = "auto" => probe.out = Classification(probe.arg.text)
          /\ hint \notin {"mixed", "auto"} => probe.out = hint

\* a `mixed` hint on Devanagari text, which classifies as hi
C12_Witness ==
    /\ probe.fn = "resolve"
    /\ probe.arg = [hint |-> "mixed", text |-> <<"U+0915">>]
    /\ probe.out = "mixed"

\* C13: the classification of a text is `mixed` for two or more scripts, else
\* `mixed` for a transliterated keyword among Latin letters, else the language
\* code of the one non-Latin script, else `en`; the empty text and texts of
\* punctuation and digits are `en`.
C13_Classification ==
    probe.fn = "detect_language" =>
      /\ probe.out = Classification(probe.arg.text)
      /\ (\A i \in 1..Len(probe.arg.text) : probe.arg.text[i] \in {"?", "1", " "})
            => probe.out = "en"

\* the last character of the Devanagari block next to a digit
C13_Witness ==
    /\ probe.fn = "detect_language"
    /\ probe.arg.text = <<"U+097F", "1">>
    /\ probe.out = "hi"

\* the codes AskRequest.language names (main.py, line 270), `auto` apart
KnownLanguageCodes == {"en", "hi", "te", "ta", "bn", "mr", "gu", "kn", "ml", "or", "pa",
                       "as", "ur"}

\* C14 as stated: whatever hint the caller sends, the resolved language is one
\* of the known language codes or `mixed`, never `auto` and never empty.
C14_ResolvedInKnownSet ==
    probe.fn = "resolve" =>
      /\ probe.out \in KnownLanguageCodes \cup {"mixed"}
      /\ probe.out /= "auto"
      /\ probe.out /= ""

----------------------------------------------------------------------------
(* The three generate functions applied to every configuration and outcome *)

\* Every variable of the /ask pipeline at its value after construction
PipelineIdle ==
    /\ dbcfg = {}
    /\ sbclient \in ClientsOf(dbcfg)
    /\ store = [s \in StoreNames |-> {}]
    /\ clock = 0
    /\ nmiss = 0
    /\ pc = [p \in Slots |-> "idle"]
    /\ req = [p \in Slots |-> NoRequest]
    /\ lang = [p \in Slots |-> "en"]
    /\ qfm = [p \in Slots |-> <<>>]
    /\ ctx = [p \in Slots |-> <<>>]
    /\ result = [p \in Slots |-> None]
    /\ ans = [p \in Slots |-> <<>>]
    /\ resp = [p \in Slots |-> None]
    /\ calls = [p \in Slots |-> <<>>]
    /\ puts = [p \in Slots |-> <<>>]
    /\ producer = [p \in Slots |-> "none"]
    /\ dbop = NoDbOp
    /\ shadow = <<>>

PipelineUnchanged ==
    UNCHANGED <<sbclient, dbcfg, store, clock, nmiss, pc, req, lang, qfm, ctx, result, ans,
                resp, calls, puts, producer, dbop, shadow>>

\* The input of one generate call: whether the module's client is configured
\* and what the network call does for each candidate model name, in order
\* (openai and ollama have one model name and use outs[1])
InitGen ==
    /\ PipelineIdle
    /\ \E client \in BOOLEAN, outs \in [1..Len(model_names) -> GenOutcomes] :
         probe = [fn |-> "input", arg |-> [client |-> client, outs |-> outs], out |-> <<>>]

\* gemini_client.generate(prompt, ...)
ApplyGeminiGenerate ==
    /\ probe.fn = "input"
    /\ probe' = [fn |-> "gemini", arg |-> probe.arg,
                 out |-> gemini_generate(probe.arg.client, probe.arg.outs)]
    /\ PipelineUnchanged

\* openai_client.generate(prompt, ...)
ApplyOpenAIGenerate ==
    /\ probe.fn = "input"
    /\ probe' = [fn |-> "openai", arg |-> probe.arg,
                 out |-> openai_generate(probe.arg.client, probe.arg.outs[1])]
    /\ PipelineUnchanged

\* ollama_client.generate(prompt, ...): no client object, the call is always made
ApplyOllamaGenerate ==
    /\ probe.fn = "input"
    /\ probe' = [fn |-> "ollama", arg |-> probe.arg,
                 out |-> ollama_generate(probe.arg.outs[1])]
    /\ PipelineUnchanged

\* gemini_client.generate with the log of its generate_content calls, and what
\* _gemini_answer makes of the same outcomes when the client is available
ApplyGeminiRetry ==
    /\ probe.fn = "input"
    /\ probe' = [fn |-> "gemini_retry", arg |-> probe.arg,
                 out |-> [called |-> IF probe.arg.client
                                     THEN gemini_calls(probe.arg.outs, 1) ELSE <<>>,
                          ret |-> gemini_generate(probe.arg.client, probe.arg.outs),
                          seen |-> _gemini_answer(probe.arg.client, probe.arg.outs)]]
    /\ PipelineUnchanged

NextGen ==
    \/ ApplyGeminiGenerate
    \/ ApplyOpenAIGenerate
    \/ ApplyOllamaGenerate
    \/ ApplyGeminiRetry

SpecGen == InitGen /\ [][NextGen]_vars

\* The candidate calls a generate makes: all of model_names for gemini, one otherwise
Candidates == IF probe.fn = "gemini" THEN 1..Len(model_names) ELSE {1}

\* The backend is configured (ollama needs no credential)
Configured == probe.fn = "ollama" \/ probe.arg.client

\* Every candidate call failed, or no response carried any text
NothingUsable ==
    \/ \A i \in Candidates : probe.arg.outs[i].kind = "raise"
    \/ \A i \in Candidates : probe.arg.outs[i] \in {Raises, Returns(<<>>)}

\* C15: every generate returns a text or unavailable (None), an exception of a
\* call is an outcome and never the result; the result is unavailable when the
\* backend is not configured, when every candidate call fails and when no
\* response carries text; and a returned text is never empty.
C15_TextOrUnavailable ==
    probe.fn \in {"gemini", "openai", "ollama"} =>
        /\ IsNone(probe.out) \/ (Len(probe.out) = 1 /\ Get(probe.out) /= <<>>)
        /\ ~Configured => IsNone(probe.out)
        /\ NothingUsable => IsNone(probe.out)

\* The parts of the contract that gemini_client.generate does keep, and the
\* exact shape of its departure: an empty text is returned only by gemini and
\* only for a response of nothing but whitespace
GenerateContained ==
    probe.fn \in {"gemini", "openai", "ollama"} =>
        /\ IsNone(probe.out) \/ Len(probe.out) = 1
        /\ ~Configured => IsNone(probe.out)
        /\ NothingUsable => IsNone(probe.out)
        /\ probe.out = Some(<<>>) =>
              /\ probe.fn = "gemini"
              /\ \E i \in Candidates : probe.arg.outs[i] = Returns(<<" ">>)

\* gemini_client.generate has returned the empty text
EmptyTextReturned == probe.fn = "gemini" /\ probe.out = Some(<<>>)

----------------------------------------------------------------------------
(* RAGPipeline.query applied to every query, index state and search outcome *)

MaxQueryWords == 2

\* Words a query is made of: the four keys of mock_responses, two spellings
\* with upper-case letters, and a word that is no key
QueryWords == { kw_rice, kw_pest, kw_fertilizer, kw_wheat,
                <<"R","i","c","e">>, <<"R","I","C","E">>, <<"h","o","w">> }

RECURSIVE JoinWords(_)
JoinWords(ws) ==
    IF ws = <<>> THEN <<>>
    ELSE IF Len(ws) = 1 THEN ws[1]
    ELSE ws[1] \o <<" ">> \o JoinWords(Tail(ws))

RagQueries == { JoinWords(ws) : ws \in UNION {[1..n -> QueryWords] : n \in 0..MaxQueryWords} }

\* What the try block of query may do for top_k = 3: raise, or return indices[0]
\* (in range, padded with -1, past the end of documents, below -len(documents))
RagSearchOutcomes == {SearchRaises} \cup
    {SearchReturns(ix) : ix \in {<<0, 1, -1>>, <<1, 0, -1>>, <<5, -1, -1>>, <<-3, 0, 1>>}}

InitRag ==
    /\ PipelineIdle
    /\ \E loaded \in BOOLEAN, query \in RagQueries, search \in RagSearchOutcomes :
         probe = [fn |-> "input",
                  arg |-> [index_loaded |-> loaded, query |-> query, search |-> search],
                  out |-> <<>>]

\* rag_pipeline.query(query, top_k=3)
ApplyRagQuery ==
    /\ probe.fn = "input"
    /\ probe' = [fn |-> "query", arg |-> probe.arg,
                 out |-> rag_pipeline_query(probe.arg.index_loaded, probe.arg.query,
                                            probe.arg.search)]
    /\ PipelineUnchanged

\* rag_pipeline._generate_mock_response(query)
ApplyMockResponse ==
    /\ probe.fn = "input"
    /\ probe' = [fn |-> "_generate_mock_response", arg |-> probe.arg,
                 out |-> _generate_mock_response(probe.arg.query)]
    /\ PipelineUnchanged

NextRag == ApplyRagQuery \/ ApplyMockResponse

SpecRag == InitRag /\ [][NextRag]_vars

\* mock_responses of _generate_mock_response, in the order of the dict literal
mock_responses == <<
    [key |-> kw_rice, response |-> "Rice cultivation requires well-drained soil with pH 5-6.5. Plant during monsoon season (June-July). Use 20-25 kg seeds per hectare. Apply NPK fertilizer (100:50:50 kg/ha) in split doses. Maintain 5-7 cm water depth during growth."],
    [key |-> kw_pest, response |-> "For pest control, use integrated pest management (IPM). Identify pests early. Use neem-based organic pesticides as first line of defense. Rotate crops to break pest cycles. Maintain field hygiene."],
    [key |-> kw_fertilizer, response |-> "Apply fertilizers based on soil test results. For most crops, NPK ratio of 4:2:1 works well. Apply nitrogen in split doses - 50% at sowing, 25% at tillering, 25% at flowering. Use organic compost to improve soil health."],
    [key |-> kw_wheat, response |-> "Wheat grows best in loamy soil with pH 6-7.5. Sow in November-December. Use 100-125 kg seeds per hectare. Apply 120 kg N, 60 kg P2O5, 40 kg K2O per hectare. Harvest when grains are hard and moisture is 20-25%."] >>

\* The rows of the table whose keyword occurs in the case-folded query
MatchingRows(query) ==
    {k \in 1..Len(mock_responses) :
        Contains(mock_responses[k].key, [i \in 1..Len(query) |-> Folded(query[i])])}

\* The static mock answer for a query: the response of the first matching row,
\* else the generic answer
IsStaticMock(query, out) ==
    IF MatchingRows(query) /= {}
    THEN LET k == CHOOSE k \in MatchingRows(query) : \A j \in MatchingRows(query) : k <= j
         IN  out.answer = <<mock_responses[k].response>>
    ELSE /\ out.answer = <<"Thank you for your question about '">> \o query \o
                          <<"'. For detailed agricultural advice, please consult your local agricultural extension officer or visit the nearest Krishi Vigyan Kendra (KVK). They can provide region-specific guidance based on your soil type and climate conditions.">>
         /\ out.category = "General Agriculture"

\* The try block of query failed: it raised, or documents[idx] raised IndexError
QueryFailed ==
    /\ probe.arg.index_loaded
    /\ \/ probe.arg.search.kind = "raise"
       \/ IsNone(relevant_docs(probe.arg.search.indices, <<>>))

\* C16: query always returns a result (an exception inside it is an outcome of
\* the search, never the result); when the index is not loaded and when the try
\* block fails the result is the static mock answer (first matching row of
\* mock_responses, else the generic answer with category "General
\* Agriculture"); the returned answer is never empty.
C16_QueryDegradesToMock ==
    probe.fn = "query" =>
        /\ DOMAIN probe.out = {"answer", "category", "sources"}
        /\ probe.out.answer /= <<>>
        /\ (~probe.arg.index_loaded \/ QueryFailed) =>
              /\ IsStaticMock(probe.arg.query, probe.out)
              /\ probe.out.sources = <<>>

\* query was called with an index loaded, the try block raised, and two keys of
\* the table occur in the query, the later row's key first: the answer is the
\* pest row's
C16_Witness ==
    /\ probe.fn = "query"
    /\ probe.arg.index_loaded
    /\ probe.arg.search = SearchRaises
    /\ probe.arg.query = kw_wheat \o <<" ">> \o kw_pest
    /\ probe.out.answer = <<mock_responses[2].response>>

----------------------------------------------------------------------------
(* ml-model-repo/query_simple.py: search *)

MaxDocs == 3
MaxSim == 2
MaxTopK == 4

\* list[::-1]
Reverse(s) == [i \in 1..Len(s) |-> s[Len(s) + 1 - i]]

\* The nan that cosine_similarity returns for 0.0 / 0.0 (line 12: numpy warns
\* and goes on), as a value apart from the similarities 0..MaxSim
NaN == -1

\* a < b and a >= b on floats: False when either side is nan
FloatLess(a, b) == a /= NaN /\ b /= NaN /\ a < b
FloatGeq(a, b) == a /= NaN /\ b /= NaN /\ a >= b

\* list.sort of CPython on a list of fewer than 64 elements (the corpus of
\* data.py has 20): the run at the front of the list is found, reversed when it
\* is strictly descending, and every later element is put into it by binary
\* insertion.  The key of a pair is its similarity (x[1] in the code, the
\* second component here) and the only comparison is <, False on nan.

\* count_run: the last position of the run that starts at s[1] and holds s[i];
\* a descending run goes on while the next key is less than the one before, an
\* ascending run while it is not
RECURSIVE RunEnd(_, _, _)
RunEnd(s, i, descending) ==
    IF i = Len(s) THEN i
    ELSE IF FloatLess(s[i + 1][2], s[i][2]) = descending THEN RunEnd(s, i + 1, descending)
    ELSE i

\* binarysort, the search: the number of elements of sorted[l+1..r] and before
\* that x goes behind; x goes before the middle element when its key is less
RECURSIVE InsertionPoint(_, _, _, _)
InsertionPoint(sorted, x, l, r) ==
    IF l >= r THEN l
    ELSE LET p == l + (r - l) \div 2
         IN  IF FloatLess(x[2], sorted[p + 1][2]) THEN InsertionPoint(sorted, x, l, p)
             ELSE InsertionPoint(sorted, x, p + 1, r)

\* binarysort, one element: x is put into the sorted list at its insertion point
InsertByKey(sorted, x) ==
    LET l == InsertionPoint(sorted, x, 0, Len(sorted))
    IN  SubSeq(sorted, 1, l) \o <<x>> \o SubSeq(sorted, l + 1, Len(sorted))

\* binarysort: the elements of s from position start + 1 on are put, one after
\* the other, into the sorted front of s
RECURSIVE binarysort(_, _)
binarysort(s, start) ==
    IF start >= Len(s) THEN s
    ELSE binarysort(InsertByKey(SubSeq(s, 1, start), s[start + 1])
                        \o SubSeq(s, start + 2, Len(s)),
                    start + 1)

\* list.sort(key=lambda x: x[1]): stable, ascending
SortByKey(s) ==
    IF Len(s) < 2 THEN s
    ELSE LET descending == FloatLess(s[2][2], s[1][2])
             n == RunEnd(s, 2, descending)
             run == SubSeq(s, 1, n)
         IN  binarysort((IF descending THEN Reverse(run) ELSE run)
                            \o SubSeq(s, n + 1, Len(s)),
                        n)

\* list.sort(key=lambda x: x[1], reverse=True): the list is reversed, sorted
\* ascending and stable, and reversed again, so equal keys keep their order
SortDescending(s) == Reverse(SortByKey(Reverse(s)))

\* list[:k] for any int k
SliceTo(s, k) ==
    LET n == Len(s)
        stop == IF k >= n THEN n ELSE IF k >= 0 THEN k ELSE IF n + k >= 0 THEN n + k ELSE 0
    IN  SubSeq(s, 1, stop)

\* What importing query_simple and calling search ends with: a NameError, or
\* the list search returns
SearchNameError == [raised |-> TRUE, results |-> <<>>]
SearchReturned(results) == [raised |-> FALSE, results |-> results]

\* import query_simple; search(query, top_k).  env is the environment the module
\* is loaded in: transformers (sentence_transformers can be imported), sklearn
\* (sklearn can be imported), vectorizer (models/vectorizer.pkl exists),
\* embeddings (models/embeddings.npy exists).  HAS_SKLEARN is assigned only in
\* the except branch of lines 19-25, so with sentence_transformers line 44
\* raises NameError while the module is loaded; vectorizer is bound only under
\* the `if` of lines 44-46, so without the file line 67 raises NameError.
\* sims[i] is cosine_similarity(query_vector, doc_embeddings[i-1]), a number
\* standing for the float, or NaN.  A result entry names its document by the
\* 0-based index idx of documents[idx].
search(env, sims, top_k) ==
    IF env.transformers THEN SearchNameError
    ELSE IF ~env.embeddings THEN SearchReturned(<<>>)
    ELSE IF env.sklearn
    THEN IF ~env.vectorizer THEN SearchNameError
         ELSE LET similarities == SortDescending([i \in 1..Len(sims) |-> <<i - 1, sims[i]>>])
                  top == SliceTo(similarities, top_k)
              IN  SearchReturned([i \in 1..Len(top) |->
                     [document |-> top[i][1], similarity |-> top[i][2], rank |-> i]])
    ELSE SearchReturned(<<>>)

\* The environments query_simple may be loaded in
SearchEnvs == [transformers : BOOLEAN, sklearn : BOOLEAN, vectorizer : BOOLEAN,
               embeddings : BOOLEAN]

\* The similarity vectors a query induces on a corpus of at most MaxDocs
\* documents: a number, or nan where line 12 divides 0.0 by 0.0, which is for
\* a document whose TF-IDF vector is zero (none of its terms is among the
\* max_features of the vocabulary) and for every document when the query has
\* no term of the vocabulary
SimVectors == UNION {[1..n -> 0..MaxSim \cup {NaN}] : n \in 0..MaxDocs}

\* search is called with any int top_k, and RAGPipeline.query with an index
\* that is loaded, top_k = 3 and each outcome of index.search
InitSearch ==
    /\ PipelineIdle
    /\ \/ \E env \in SearchEnvs, sims \in SimVectors, top_k \in -1..MaxTopK :
            probe = [fn |-> "input",
                     arg |-> [env |-> env, sims |-> sims, top_k |-> top_k],
                     out |-> <<>>]
       \/ \E query \in RagQueries, found \in RagSearchOutcomes :
            probe = [fn |-> "indexed",
                     arg |-> [index_loaded |-> TRUE, query |-> query, search |-> found],
                     out |-> <<>>]

\* search(query, top_k)
ApplySearch ==
    /\ probe.fn = "input"
    /\ probe' = [fn |-> "search", arg |-> probe.arg,
                 out |-> search(probe.arg.env, probe.arg.sims, probe.arg.top_k)]
    /\ PipelineUnchanged

\* rag_pipeline.query(query, top_k=3) on a loaded index
ApplyRetrieval ==
    /\ probe.fn = "indexed"
    /\ probe' = [fn |-> "query", arg |-> probe.arg,
                 out |-> rag_pipeline_query(probe.arg.index_loaded, probe.arg.query,
                                            probe.arg.search)]
    /\ PipelineUnchanged

NextSearch == ApplySearch \/ ApplyRetrieval

SpecSearch == InitSearch /\ [][NextSearch]_vars

\* The documents of the corpus at the greatest similarity (the least distance)
Nearest(sims) ==
    {i \in 1..Len(sims) : \A j \in 1..Len(sims) : FloatGeq(sims[i], sims[j])}

\* The titles of the corpus documents at the positions of indices[0] that name a
\* document (0 <= idx < len(documents)), in the order reported, which is from
\* the nearest on
RECURSIVE MatchedTitles(_)
MatchedTitles(indices) ==
    IF indices = <<>> THEN <<>>
    ELSE IF Head(indices) >= 0 /\ Head(indices) < Len(documents)
    THEN <<documents[Head(indices) + 1].title>> \o MatchedTitles(Tail(indices))
    ELSE MatchedTitles(Tail(indices))

\* The result search returned is in order: ranks 1..n, each entry with the
\* similarity of its document, similarities non-increasing, no document twice,
\* equally similar documents in corpus order, the globally nearest first
SearchOrdered ==
    LET r == probe.out.results
        sims == probe.arg.sims
    IN  /\ \A i \in 1..Len(r) :
             /\ r[i].rank = i
             /\ r[i].document + 1 \in 1..Len(sims)
             /\ r[i].similarity = sims[r[i].document + 1]
        /\ \A i, j \in 1..Len(r) :
             i < j => /\ FloatGeq(r[i].similarity, r[j].similarity)
                      /\ r[i].document /= r[j].document
                      /\ r[i].similarity = r[j].similarity
                            => r[i].document < r[j].document
        /\ r /= <<>> =>
             /\ r[1].document + 1 \in Nearest(sims)
             /\ \A j \in Nearest(sims) : r[1].document + 1 <= j

\* C17: for every query and every top_k the retrieval result has at most top_k
\* entries, its similarities are non-increasing (distances non-decreasing), its
\* first entry is the globally nearest document, its ranks are 1..n in order,
\* and of two equally similar documents the one earlier in the corpus comes
\* first; this for the result of search and for the documents of
\* RAGPipeline.query, whose first is the nearest document the index reported.
C17_RetrievalOrdering ==
    /\ probe.fn = "search" /\ ~probe.out.raised =>
          /\ Len(probe.out.results) <= probe.arg.top_k
          /\ SearchOrdered
    /\ probe.fn = "query" /\ probe.arg.search.kind = "indices" =>
          LET matched == MatchedTitles(probe.arg.search.indices)
          IN  /\ Len(probe.out.sources) <= 3
              /\ probe.out.sources /= <<>> =>
                    /\ matched /= <<>>
                    /\ probe.out.sources[1] = matched[1]

\* What does hold: the result of search is in order for every top_k when the
\* similarities are numbers, it has at most top_k entries when top_k is not
\* negative, and RAGPipeline.query lists the nearest reported document first
\* when the index reports no index below zero
OrderedOnNumbers ==
    /\ probe.fn = "search" /\ ~probe.out.raised =>
          /\ probe.arg.top_k >= 0 => Len(probe.out.results) <= probe.arg.top_k
          /\ (\A i \in 1..Len(probe.arg.sims) : probe.arg.sims[i] /= NaN) => SearchOrdered
    /\ (/\ probe.fn = "query" /\ probe.arg.search.kind = "indices"
        /\ \A i \in 1..Len(probe.arg.search.indices) : probe.arg.search.indices[i] >= 0) =>
          LET matched == MatchedTitles(probe.arg.search.indices)
          IN  /\ Len(probe.out.sources) <= 3
              /\ probe.out.sources /= <<>> =>
                    /\ matched /= <<>>
                    /\ probe.out.sources[1] = matched[1]

\* search returned two entries for a corpus whose first two documents are
\* equally similar and its third is nearer: the third comes first, then the
\* first of the tied pair
TiedPairInCorpusOrder ==
    /\ probe.fn = "search"
    /\ probe.arg.sims = <<1, 1, 2>>
    /\ probe.arg.top_k = 2
    /\ ~probe.out.raised
    /\ Len(probe.out.results) = 2
    /\ probe.out.results[1].document = 2
    /\ probe.out.results[2].document = 0

\* search(query, -1) returned all but the last of the sorted entries
NegativeTopK ==
    /\ probe.fn = "search"
    /\ probe.arg.top_k = -1
    /\ ~probe.out.raised
    /\ Len(probe.arg.sims) = 3
    /\ Len(probe.out.results) = 2

\* search returned entries whose similarity is nan, in corpus order
NaNSimilarities ==
    /\ probe.fn = "search"
    /\ ~probe.out.raised
    /\ Len(probe.out.results) = 2
    /\ \A i \in 1..2 : /\ probe.out.results[i].similarity = NaN
                       /\ probe.out.results[i].document = i - 1

\* One document has a zero vector: no comparison with its nan is True, the sort
\* leaves the list as it is, and the nearest document comes last
NaNBlocksSort ==
    /\ probe.fn = "search"
    /\ probe.arg.sims = <<0, NaN, 1>>
    /\ probe.arg.top_k = 3
    /\ ~probe.out.raised
    /\ Len(probe.out.results) = 3
    /\ \A i \in 1..3 : probe.out.results[i].document = i - 1

\* RAGPipeline.query listed the last document of the corpus first although the
\* index reported no document
UnmatchedFirst ==
    /\ probe.fn = "query"
    /\ probe.arg.search = SearchReturns(<<5, -1, -1>>)
    /\ probe.out.sources /= <<>>
    /\ probe.out.sources[1] = documents[Len(documents)].title

----------------------------------------------------------------------------
(* main.py: submit_app_feedback, and database.py: save_app_feedback *)

MaxSubmissions == 1

\* AppFeedbackRequest payloads: message is a str, rating and page are optional
FeedbackMessages == { <<>>, <<" ">>, <<" ", "o", "k", "\n">> }
FeedbackRatings == {None} \cup {Some(n) : n \in {0, 1, 5, 6}}
FeedbackPages == {None, Some(<<"h", "o", "m", "e">>)}

\* HTTP status of the responses of submit_app_feedback
HTTP_OK == 200
HTTP_BAD_REQUEST == 400

submit_app_feedback_NoRatingCheck(message, rating, page) ==
    IF message = <<>> \/ strip(message) = <<>>
    THEN [status |-> HTTP_BAD_REQUEST, detail |-> "Message cannot be empty", save |-> None]
    ELSE [status |-> HTTP_OK, detail |-> "App feedback recorded",
          save |-> Some([message |-> strip(message), rating |-> rating, page |-> page])]

\* submit_app_feedback up to the call of db.save_app_feedback: the response, and
\* the arguments of the persistence call when one is made
submit_app_feedback(message, rating, page) ==
    IF message = <<>> \/ strip(message) = <<>>
    THEN [status |-> HTTP_BAD_REQUEST, detail |-> "Message cannot be empty", save |-> None]
    ELSE IF ~IsNone(rating) /\ (Get(rating) < 1 \/ Get(rating) > 5)
    THEN [status |-> HTTP_BAD_REQUEST, detail |-> "Rating must be between 1 and 5",
          save |-> None]
    ELSE [status |-> HTTP_OK, detail |-> "App feedback recorded",
          save |-> Some([message |-> strip(message), rating |-> rating, page |-> page])]

\* save_app_feedback: one row is inserted into app_feedback of every configured
\* store; a store whose call raises (failing) is left as it was
save_app_feedback(cfg, tables, row, failing) ==
    [s \in StoreNames |->
        IF s \in cfg /\ s \notin failing THEN Append(tables[s], row) ELSE tables[s]]

\* No submission handled yet: the app_feedback tables are empty
NoFeedback ==
    [fn |-> "app_feedback", arg |-> <<>>,
     out |-> [status |-> 0, saves |-> <<>>, tables |-> [s \in StoreNames |-> <<>>],
              handled |-> 0]]

InitFeedback ==
    /\ dbcfg \in DbConfigs
    /\ sbclient \in ClientsOf(dbcfg)
    /\ store = [s \in StoreNames |-> {}]
    /\ clock = 0
    /\ nmiss = 0
    /\ pc = [p \in Slots |-> "idle"]
    /\ req = [p \in Slots |-> NoRequest]
    /\ lang = [p \in Slots |-> "en"]
    /\ qfm = [p \in Slots |-> <<>>]
    /\ ctx = [p \in Slots |-> <<>>]
    /\ result = [p \in Slots |-> None]
    /\ ans = [p \in Slots |-> <<>>]
    /\ resp = [p \in Slots |-> None]
    /\ calls = [p \in Slots |-> <<>>]
    /\ puts = [p \in Slots |-> <<>>]
    /\ producer = [p \in Slots |-> "none"]
    /\ dbop = NoDbOp
    /\ shadow = <<>>
    /\ probe = NoFeedback

\* POST /app-feedback: the whole handler, the persistence call included.
\* saves is the log of the calls of db.save_app_feedback.
SubmitAppFeedback ==
    /\ probe.fn \in {"app_feedback", "submit_app_feedback"}
    /\ probe.out.handled < MaxSubmissions
    /\ \E message \in FeedbackMessages, rating \in FeedbackRatings, page \in FeedbackPages,
          failing \in SUBSET dbcfg :
         \E r \in {submit_app_feedback(message, rating, page)} :
            probe' = [fn |-> "submit_app_feedback",
                      arg |-> [message |-> message, rating |-> rating, page |-> page,
                               failing |-> failing],
                      out |-> [status |-> r.status,
                               saves |-> IF IsNone(r.save) THEN probe.out.saves
                                         ELSE Append(probe.out.saves, Get(r.save)),
                               tables |-> IF IsNone(r.save) THEN probe.out.tables
                                          ELSE save_app_feedback(dbcfg, probe.out.tables,
                                                                 Get(r.save), failing),
                               handled |-> probe.out.handled + 1]]
    /\ PipelineUnchanged

NextFeedback == SubmitAppFeedback

SpecFeedback == InitFeedback /\ [][NextFeedback]_vars

\* A payload the endpoint must reject: the message is empty after trimming, or
\* a rating is present and outside 1..5
InvalidFeedback(p) ==
    \/ Trimmed(p.message) = <<>>
    \/ p.rating /= <<>> /\ p.rating[1] \notin 1..5

\* One handled submission, from the state before it to the state after it
C18_Submission ==
    probe'.fn = "submit_app_feedback" /\ probe'.out.handled = probe.out.handled + 1 =>
        LET p == probe'.arg
            row == [message |-> Trimmed(p.message), rating |-> p.rating, page |-> p.page]
        IN  IF InvalidFeedback(p)
            THEN /\ probe'.out.status \in 400..499
                 /\ probe'.out.saves = probe.out.saves
                 /\ probe'.out.tables = probe.out.tables
            ELSE /\ probe'.out.status = 200
                 /\ probe'.out.saves = Append(probe.out.saves, row)
                 /\ \A s \in StoreNames :
                      probe'.out.tables[s] =
                         IF s \in dbcfg \ p.failing THEN Append(probe.out.tables[s], row)
                         ELSE probe.out.tables[s]

\* C18: a submission whose message is empty after trimming, or whose rating is
\* present and outside 1..5, is answered with a client error and makes no
\* persistence call; every other submission is answered with success and
\* persists the trimmed message with its rating and page.
C18_FeedbackValidation == [][C18_Submission]_vars

\* An accepted submission with surrounding whitespace and the rating 5: the
\* row in the store carries the trimmed message
C18_Witness ==
    /\ probe.fn = "submit_app_feedback"
    /\ probe.arg.message = <<" ", "o", "k", "\n">>
    /\ probe.arg.rating = Some(5)
    /\ probe.arg.failing = {}
    /\ dbcfg = {"mongodb"}
    /\ probe.out.status = 200
    /\ probe.out.tables["mongodb"] =
          << [message |-> <<"o", "k">>, rating |-> Some(5), page |-> probe.arg.page] >>

----------------------------------------------------------------------------
(* database.py: cache_response calls of several server processes on one key,
   one action per statement sent to the shared store *)

MaxPutCalls == 3

\* The answer of the n-th call, so that a stored answer names the call it is of
PutAnswers == << <<"p1">>, <<"p2">>, <<"p3">>, <<"p4">> >>

\* The key all calls are made for
ConcQuery == SeedQuery
ConcLanguage == "en"
ConcKey == PutKey(ConcQuery)

\* A writer that is in no call
NoPut == [answer |-> <<>>, now |-> 0, read |-> None]

\* No call made yet
NoWrites == [fn |-> "cache_response", arg |-> <<>>,
             out |-> [begun |-> 0, last |-> None, lowered |-> FALSE]]

\* One store is configured; its query_cache is empty or is what an earlier
\* call for the key left
InitConc ==
    /\ dbcfg \in { {"supabase"}, {"mongodb"}, {"mysql"} }
    /\ sbclient \in ClientsOf(dbcfg)
    /\ \E seeded \in BOOLEAN :
         store = IF seeded THEN SeededStore ELSE [s \in StoreNames |-> {}]
    /\ clock = 1
    /\ nmiss = 0
    /\ pc = [p \in Slots |-> "idle"]
    /\ req = [p \in Slots |-> NoPut]
    /\ lang = [p \in Slots |-> "en"]
    /\ qfm = [p \in Slots |-> <<>>]
    /\ ctx = [p \in Slots |-> <<>>]
    /\ result = [p \in Slots |-> None]
    /\ ans = [p \in Slots |-> <<>>]
    /\ resp = [p \in Slots |-> None]
    /\ calls = [p \in Slots |-> <<>>]
    /\ puts = [p \in Slots |-> <<>>]
    /\ producer = [p \in Slots |-> "none"]
    /\ dbop = NoDbOp
    /\ shadow = <<>>
    /\ probe = NoWrites

ConcUnchanged ==
    UNCHANGED <<sbclient, dbcfg, nmiss, lang, qfm, ctx, result, ans, resp, calls, puts, producer,
                dbop, shadow>>

\* The table of the configured store
TheStore == CHOOSE s \in StoreNames : s \in dbcfg

\* The table after a statement, and the log of the last statement that changed
\* it: `last` is the answer that statement wrote, `lowered` whether it left a
\* row's hit_count below what it was
Written(w, rows) ==
    /\ store' = [store EXCEPT ![TheStore] = rows]
    /\ probe' = IF rows = store[TheStore] THEN probe
                ELSE [probe EXCEPT !.out.last = Some(req[w].answer),
                                   !.out.lowered =
                                       \E r \in store[TheStore] : \E n \in rows :
                                           n.id = r.id /\ n.hit_count < r.hit_count]

\* cache_response, lines 165-166: q and now = datetime.now() are taken before
\* any store is called
PutBegin(w) ==
    /\ pc[w] = "idle"
    /\ probe.out.begun < MaxPutCalls
    /\ req' = [req EXCEPT ![w] = [answer |-> PutAnswers[probe.out.begun + 1],
                                  now |-> clock, read |-> None]]
    /\ pc' = [pc EXCEPT ![w] = IF "supabase" \in dbcfg THEN "supabase_select"
                               ELSE IF "mongodb" \in dbcfg THEN "mongodb_upsert"
                               ELSE "mysql_select"]
    /\ clock' = clock + 1
    /\ probe' = [probe EXCEPT !.out.begun = @ + 1]
    /\ UNCHANGED store
    /\ ConcUnchanged

\* Supabase, lines 169-170: select(id, hit_count)...maybe_single().execute()
\* and `if r.data`; the select raises when several rows match, `r.data` raises
\* when no row matches and the client returned None, and the except clause
\* ends the call
SupabaseSelect(w) ==
    /\ pc[w] = "supabase_select"
    /\ LET m == Matching(store["supabase"], ConcKey, ConcLanguage)
       IN  IF Cardinality(m) > 1 \/ (m = {} /\ sbclient = "none")
           THEN /\ pc' = [pc EXCEPT ![w] = "idle"]
                /\ req' = [req EXCEPT ![w] = NoPut]
           ELSE /\ pc' = [pc EXCEPT ![w] = "supabase_write"]
                /\ req' = [req EXCEPT ![w].read =
                              IF m = {} THEN None
                              ELSE Some([id |-> First(m).id, hit_count |-> First(m).hit_count])]
    /\ clock' = clock + 1
    /\ UNCHANGED <<store, probe>>
    /\ ConcUnchanged

\* Supabase, lines 170-173: update by id with hit_count = the value read + 1 and
\* updated_at = now, or insert with updated_at set by the store
SupabaseWrite(w) ==
    /\ pc[w] = "supabase_write"
    /\ LET rows == store["supabase"]
           read == req[w].read
       IN  Written(w,
             IF ~IsNone(read)
             THEN {IF r.id = Get(read).id
                   THEN [r EXCEPT !.answer = req[w].answer, !.category = "None",
                                  !.hit_count = Get(read).hit_count + 1,
                                  !.updated_at = req[w].now]
                   ELSE r : r \in rows}
             ELSE rows \cup {NewRow(rows, ConcQuery, ConcKey, ConcLanguage, req[w].answer,
                                    "None", clock)})
    /\ pc' = [pc EXCEPT ![w] = "idle"]
    /\ req' = [req EXCEPT ![w] = NoPut]
    /\ clock' = clock + 1
    /\ ConcUnchanged

\* MongoDB, lines 178-191: update_one(..., upsert=True).  The server looks for a
\* document that matches the filter: it updates one that matches, atomically;
\* when none matches it goes on to insert, and query_cache has no unique index
\* on (query_lower, language) that would stop the insert of a key another call
\* has inserted since
MongoUpsert(w) ==
    /\ pc[w] = "mongodb_upsert"
    /\ LET rows == store["mongodb"]
           m == Matching(rows, ConcKey, ConcLanguage)
       IN  IF m /= {}
           THEN /\ \E r \in m :
                     Written(w, (rows \ {r}) \cup
                                {MongoUpdated(r, ConcQuery, req[w].answer, "None", req[w].now)})
                /\ pc' = [pc EXCEPT ![w] = "idle"]
                /\ req' = [req EXCEPT ![w] = NoPut]
           ELSE /\ pc' = [pc EXCEPT ![w] = "mongodb_insert"]
                /\ UNCHANGED <<store, probe, req>>
    /\ clock' = clock + 1
    /\ ConcUnchanged

\* the insert of an upsert that found no document: hit_count 1 and updated_at =
\* now of the call
MongoInsert(w) ==
    /\ pc[w] = "mongodb_insert"
    /\ Written(w, store["mongodb"] \cup
                  {NewRow(store["mongodb"], ConcQuery, ConcKey, ConcLanguage,
                          req[w].answer, "None", req[w].now)})
    /\ pc' = [pc EXCEPT ![w] = "idle"]
    /\ req' = [req EXCEPT ![w] = NoPut]
    /\ clock' = clock + 1
    /\ ConcUnchanged

\* MySQL, lines 197-198: SELECT id, hit_count ... LIMIT 1
MySQLSelect(w) ==
    /\ pc[w] = "mysql_select"
    /\ LET m == Matching(store["mysql"], ConcKey, ConcLanguage)
       IN  \E r \in IF m = {} THEN {None}
                    ELSE {Some([id |-> x.id, hit_count |-> x.hit_count]) : x \in m} :
              req' = [req EXCEPT ![w].read = r]
    /\ pc' = [pc EXCEPT ![w] = "mysql_write"]
    /\ clock' = clock + 1
    /\ UNCHANGED <<store, probe>>
    /\ ConcUnchanged

\* MySQL, lines 199-202: UPDATE ... hit_count=hit_count+1, updated_at=now WHERE
\* id, or INSERT; the INSERT of a key that is in the table by now violates
\* UNIQUE KEY uq_ql and raises, and the except clause drops the write
MySQLWrite(w) ==
    /\ pc[w] = "mysql_write"
    /\ LET rows == store["mysql"]
           read == req[w].read
       IN  Written(w,
             IF ~IsNone(read)
             THEN {IF r.id = Get(read).id
                   THEN [r EXCEPT !.answer = req[w].answer, !.category = "None",
                                  !.hit_count = r.hit_count + 1,
                                  !.updated_at = req[w].now]
                   ELSE r : r \in rows}
             ELSE IF Matching(rows, ConcKey, ConcLanguage) /= {} THEN rows
             ELSE rows \cup {NewRow(rows, ConcQuery, ConcKey, ConcLanguage, req[w].answer,
                                    "None", clock)})
    /\ pc' = [pc EXCEPT ![w] = "idle"]
    /\ req' = [req EXCEPT ![w] = NoPut]
    /\ clock' = clock + 1
    /\ ConcUnchanged

NextConc ==
    \E w \in Slots :
        \/ PutBegin(w)
        \/ SupabaseSelect(w)
        \/ SupabaseWrite(w)
        \/ MongoUpsert(w)
        \/ MongoInsert(w)
        \/ MySQLSelect(w)
        \/ MySQLWrite(w)

SpecConc == InitConc /\ [][NextConc]_vars

\* Every call that was begun has completed
AllComplete == \A w \in Slots : pc[w] = "idle"

\* What get may return for the key
GetResults == get_cached_response(dbcfg, store, ConcQuery, ConcLanguage, {})

\* The rows of the key, and those of them that were updated last
KeyRows == Matching(store[TheStore], ConcKey, ConcLanguage)

\* C19: after all calls for the key have completed, get returns the answer of
\* the call whose statement changed the store last, also when the store holds
\* several rows of the key.
C19_LastWriterWins ==
    AllComplete /\ ~IsNone(probe.out.last) =>
        \A g \in GetResults : ~IsNone(g) /\ Get(g).answer = Get(probe.out.last)

\* What does hold: last-writer-wins as long as the key has one row, which MySQL
\* (UNIQUE KEY uq_ql) keeps
LastWriterWinsOnOneRow ==
    AllComplete /\ ~IsNone(probe.out.last) /\ Cardinality(KeyRows) <= 1 =>
        \A g \in GetResults : ~IsNone(g) /\ Get(g).answer = Get(probe.out.last)
OneRowOnMySQL == "mysql" \in dbcfg => Cardinality(KeyRows) <= 1

\* Two upserts that both found no document have both inserted: MongoDB holds
\* two documents of the key, and the one inserted last has the earlier
\* updated_at
DuplicateDocuments ==
    /\ AllComplete
    /\ dbcfg = {"mongodb"}
    /\ Cardinality(KeyRows) = 2
    /\ \E r \in KeyRows : r.answer = Get(probe.out.last) /\ r \notin Latest(KeyRows)

\* All calls have completed, Supabase holds two rows of the key, and the row the
\* last statement wrote is not the one with the latest updated_at
StaleRowWritten ==
    /\ AllComplete
    /\ dbcfg = {"supabase"}
    /\ Cardinality(KeyRows) = 2
    /\ \E r \in KeyRows : r.answer = Get(probe.out.last) /\ r \notin Latest(KeyRows)

\* C20: no statement of a put leaves the hit_count of a row of the key lower
\* than it was before the statement, on any of the three stores and in every
\* interleaving.
C20_HitCounterMonotonic == probe.out.lowered = FALSE

\* What does hold: hit_count never goes down on MongoDB ($inc) and MySQL
\* (hit_count=hit_count+1)
MonotonicElsewhere == "supabase" \notin dbcfg => probe.out.lowered = FALSE

\* A Supabase update has written the hit_count it read plus one over a greater
\* value
CounterLowered ==
    /\ dbcfg = {"supabase"}
    /\ probe.out.lowered

----------------------------------------------------------------------------
(* Two /ask requests served at the same time by two server processes that share
   the store; each process runs the handler steps of Spec *)

\* Both requests ask in English; each slot serves one request
ParLanguage == "en"

\* nmiss starts below zero by one per extra slot, so that each of the two
\* requests may miss the cache within MaxMisses
InitPar ==
    /\ dbcfg \in DbConfigs
    /\ sbclient \in ClientsOf(dbcfg)
    /\ store = [s \in StoreNames |-> {}]
    /\ clock = 0
    /\ nmiss = 1 - Cardinality(Slots)
    /\ pc = [p \in Slots |-> "idle"]
    /\ req = [p \in Slots |-> NoRequest]
    /\ lang = [p \in Slots |-> "en"]
    /\ qfm = [p \in Slots |-> <<>>]
    /\ ctx = [p \in Slots |-> <<>>]
    /\ result = [p \in Slots |-> None]
    /\ ans = [p \in Slots |-> <<>>]
    /\ resp = [p \in Slots |-> None]
    /\ calls = [p \in Slots |-> <<>>]
    /\ puts = [p \in Slots |-> <<>>]
    /\ producer = [p \in Slots |-> "none"]
    /\ dbop = NoDbOp
    /\ shadow = <<>>
    /\ probe = [fn |-> "cache_response", arg |-> <<>>,
                out |-> [p \in Slots |-> [now |-> 0, read |-> None, seen |-> {}]]]

ParUnchanged ==
    UNCHANGED <<sbclient, dbcfg, nmiss, req, lang, qfm, ctx, result, ans, resp, calls, puts,
                producer, dbop, shadow>>

\* The call of db.cache_response that slot p is in: its arguments and the
\* stores whose statement raises
ParPut(p) == puts[p][Len(puts[p])]
ParKey(p) == PutKey(ParPut(p).args.query)

\* The statement a call of cache_response sends first to store s, and the
\* position after the branch of store s: the branch of the next store the
\* Database holds (supabase, mongodb, mysql in this order), or the return
StorePc(s) == IF s = "supabase" THEN "put_supabase_select"
              ELSE IF s = "mongodb" THEN "put_mongodb" ELSE "put_mysql_select"
StoreOrder == <<"supabase", "mongodb", "mysql">>
AfterBranch(k) ==
    LET rest == {j \in (k + 1)..Len(StoreOrder) : StoreOrder[j] \in dbcfg}
    IN  IF rest = {} THEN "return"
        ELSE StorePc(StoreOrder[CHOOSE j \in rest : \A i \in rest : j <= i])

\* get_cached_response of a Database with one store or none: one select
AskLookup(p) ==
    /\ pc[p] = "idle"
    /\ Cardinality(dbcfg) <= 1
    /\ AskReceive(p)
    /\ req'[p].language = ParLanguage

\* get_cached_response, lines 136-142, of a Database that holds supabase and
\* mongodb: the select sent to Supabase; `seen` is the table as the select
\* found it
AskLookupSupabase(p) ==
    /\ pc[p] = "idle"
    /\ Cardinality(dbcfg) > 1
    /\ pc' = [pc EXCEPT ![p] = "lookup_mongodb"]
    /\ probe' = [probe EXCEPT !.out[p].seen = store["supabase"]]
    /\ UNCHANGED <<store, clock>>
    /\ ParUnchanged

\* lines 143-152 and main.py 319-336: find_one is sent to MongoDB when the
\* select of Supabase gave no row or raised, and the handler goes on with what
\* the two lookups gave
AskLookupMongo(p) ==
    /\ pc[p] = "lookup_mongodb"
    /\ \E failing \in SUBSET dbcfg :
         AskReceiveOn(p, failing, [store EXCEPT !["supabase"] = probe.out[p].seen])
    /\ req'[p].language = ParLanguage
    /\ probe' = [probe EXCEPT !.out[p].seen = {}]
    /\ UNCHANGED dbop

\* main.py 374-385 and database.py 165-166: the answer is final, cache_response
\* is entered and takes q and now = datetime.now()
AskCacheBegin(p) ==
    /\ pc[p] = "cache"
    /\ \E failing \in SUBSET dbcfg :
         \E args \in {CacheCallArgs(req[p].query, lang[p],
                                    FinalAnswer(Get(result[p]), lang[p]),
                                    Get(result[p]))} :
             /\ ans' = [ans EXCEPT ![p] = args.answer]
             /\ puts' = [puts EXCEPT ![p] = Append(@, [args |-> args, failing |-> failing])]
    /\ clock' = clock + 1
    /\ probe' = [probe EXCEPT !.out[p].now = clock + 1]
    /\ calls' = [calls EXCEPT ![p] = Append(@, Call("cache_put", None))]
    /\ pc' = [pc EXCEPT ![p] = AfterBranch(0)]
    /\ UNCHANGED <<sbclient, dbcfg, store, nmiss, req, lang, qfm, ctx, result, resp, producer,
                   dbop, shadow>>

\* database.py 169-170: select(id, hit_count).maybe_single().execute() and
\* `if r.data`; a raise ends the Supabase branch
ParSupabaseSelect(p) ==
    /\ pc[p] = "put_supabase_select"
    /\ LET m == Matching(store["supabase"], ParKey(p), ParPut(p).args.language)
       IN  IF \/ "supabase" \in ParPut(p).failing
              \/ Cardinality(m) > 1
              \/ (m = {} /\ sbclient = "none")
           THEN /\ pc' = [pc EXCEPT ![p] = AfterBranch(1)]
                /\ UNCHANGED probe
           ELSE /\ pc' = [pc EXCEPT ![p] = "put_supabase_write"]
                /\ probe' = [probe EXCEPT !.out[p].read =
                               IF m = {} THEN None
                               ELSE Some([id |-> First(m).id,
                                          hit_count |-> First(m).hit_count])]
    /\ UNCHANGED <<store, clock>>
    /\ ParUnchanged

\* database.py 171-173: update by id with hit_count = the value read + 1 and
\* updated_at = now, or insert with updated_at set by the store
ParSupabaseWrite(p) ==
    /\ pc[p] = "put_supabase_write"
    /\ LET rows == store["supabase"]
           read == probe.out[p].read
           a == ParPut(p).args
       IN  store' = [store EXCEPT !["supabase"] =
             IF ~IsNone(read)
             THEN {IF r.id = Get(read).id
                   THEN [r EXCEPT !.answer = a.answer, !.category = a.category,
                                  !.hit_count = Get(read).hit_count + 1,
                                  !.updated_at = probe.out[p].now]
                   ELSE r : r \in rows}
             ELSE rows \cup {NewRow(rows, a.query, ParKey(p), a.language, a.answer,
                                    a.category, clock + 1)}]
    /\ clock' = clock + 1
    /\ probe' = [probe EXCEPT !.out[p].read = None]
    /\ pc' = [pc EXCEPT ![p] = AfterBranch(1)]
    /\ ParUnchanged

\* database.py 178-191: update_one(..., upsert=True).  A raise ends the MongoDB
\* branch; the server updates one document that matches the filter, atomically,
\* and when none matches it goes on to insert (no unique index stops the insert
\* of a key another call has inserted since)
ParMongoUpsert(p) ==
    /\ pc[p] = "put_mongodb"
    /\ LET a == ParPut(p).args
           rows == store["mongodb"]
           m == Matching(rows, ParKey(p), a.language)
       IN  IF "mongodb" \in ParPut(p).failing
           THEN /\ pc' = [pc EXCEPT ![p] = AfterBranch(2)]
                /\ UNCHANGED store
           ELSE IF m /= {}
           THEN /\ \E r \in m :
                     store' = [store EXCEPT !["mongodb"] =
                                 (rows \ {r}) \cup
                                 {MongoUpdated(r, a.query, a.answer, a.category,
                                               probe.out[p].now)}]
                /\ pc' = [pc EXCEPT ![p] = AfterBranch(2)]
           ELSE /\ pc' = [pc EXCEPT ![p] = "put_mongodb_insert"]
                /\ UNCHANGED store
    /\ clock' = clock + 1
    /\ UNCHANGED probe
    /\ ParUnchanged

\* the insert of an upsert that found no document
ParMongoInsert(p) ==
    /\ pc[p] = "put_mongodb_insert"
    /\ LET a == ParPut(p).args
       IN  store' = [store EXCEPT !["mongodb"] =
                       @ \cup {NewRow(@, a.query, ParKey(p), a.language, a.answer,
                                      a.category, probe.out[p].now)}]
    /\ clock' = clock + 1
    /\ pc' = [pc EXCEPT ![p] = AfterBranch(2)]
    /\ UNCHANGED probe
    /\ ParUnchanged

\* database.py 197-198: SELECT id, hit_count ... LIMIT 1
ParMySQLSelect(p) ==
    /\ pc[p] = "put_mysql_select"
    /\ LET m == Matching(store["mysql"], ParKey(p), ParPut(p).args.language)
       IN  IF "mysql" \in ParPut(p).failing
           THEN /\ pc' = [pc EXCEPT ![p] = AfterBranch(3)]
                /\ UNCHANGED probe
           ELSE /\ pc' = [pc EXCEPT ![p] = "put_mysql_write"]
                /\ \E r \in IF m = {} THEN {None}
                            ELSE {Some([id |-> x.id, hit_count |-> x.hit_count]) : x \in m} :
                      probe' = [probe EXCEPT !.out[p].read = r]
    /\ UNCHANGED <<store, clock>>
    /\ ParUnchanged

\* database.py 199-202: UPDATE ... hit_count=hit_count+1, updated_at=now WHERE
\* id, or INSERT; the INSERT of a key that is in the table by now violates
\* UNIQUE KEY uq_ql and raises, and the except clause drops the write
ParMySQLWrite(p) ==
    /\ pc[p] = "put_mysql_write"
    /\ LET rows == store["mysql"]
           read == probe.out[p].read
           a == ParPut(p).args
       IN  store' = [store EXCEPT !["mysql"] =
             IF ~IsNone(read)
             THEN {IF r.id = Get(read).id
                   THEN [r EXCEPT !.answer = a.answer, !.category = a.category,
                                  !.hit_count = r.hit_count + 1,
                                  !.updated_at = probe.out[p].now]
                   ELSE r : r \in rows}
             ELSE IF Matching(rows, ParKey(p), a.language) /= {} THEN rows
             ELSE rows \cup {NewRow(rows, a.query, ParKey(p), a.language, a.answer,
                                    a.category, clock + 1)}]
    /\ clock' = clock + 1
    /\ probe' = [probe EXCEPT !.out[p].read = None]
    /\ pc' = [pc EXCEPT ![p] = AfterBranch(3)]
    /\ ParUnchanged

NextPar ==
    \E p \in Slots :
        \/ AskLookup(p)
        \/ AskLookupSupabase(p)
        \/ AskLookupMongo(p)
        \/ AskGemini(p)
        \/ AskOpenAI(p)
        \/ AskOllama(p)
        \/ AskRagSkip(p)
        \/ AskRagQuery(p)
        \/ AskCacheBegin(p)
        \/ ParSupabaseSelect(p)
        \/ ParSupabaseWrite(p)
        \/ ParMongoUpsert(p)
        \/ ParMongoInsert(p)
        \/ ParMySQLSelect(p)
        \/ ParMySQLWrite(p)
        \/ AskReturn(p)

SpecPar == InitPar /\ [][NextPar]_vars

\* Slot p's request missed the cache and went down the chain to its put
Missed(p) == pc[p] = "done" /\ Len(puts[p]) = 1

\* The put of slot p's request reached some store
PutLanded(p) == dbcfg \ puts[p][1].failing /= {}

\* The two requests have the same cache key
SameKey == EntryKey(req[1].query, lang[1]) = EntryKey(req[2].query, lang[2])

\* A request is answered from what its own chain produced
OwnAnswer(p) ==
    /\ Response(p).answer = puts[p][1].args.answer
    /\ Response(p).answer = FinalAnswer(Get(result[p]), lang[p])
    /\ Response(p).source \in {"gemini", "openai", "ollama", "local"}
    /\ Entries(p, "cache_put") /= {}

\* C21: two concurrent requests with the same cache key may both miss, both
\* walk the chain and both call put; every request that has finished carries a
\* complete response built from its own chain, and once both have finished and
\* a put reached a store, get for the key returns an entry holding one of the
\* two answers.
C21_NoSingleFlight ==
    /\ \A p \in Slots :
         pc[p] = "done" => /\ Responded(p)
                           /\ Response(p).answer /= <<>>
                           /\ Response(p).source /= ""
                           /\ Missed(p) => OwnAnswer(p)
    /\ (Missed(1) /\ Missed(2) /\ SameKey /\ (PutLanded(1) \/ PutLanded(2))) =>
          \A g \in get_cached_response(dbcfg, store, req[1].query, lang[1], {}) :
              /\ ~IsNone(g)
              /\ Get(g).answer \in {Response(1).answer, Response(2).answer}

\* Both requests asked the same query, both missed a store that never failed,
\* different sources answered them, and the store holds one row of the key, hit
\* twice, with the answer of one of them
C21_Witness ==
    /\ Missed(1) /\ Missed(2)
    /\ req[1].query = req[2].query
    /\ dbcfg = {"mongodb"}
    /\ puts[1][1].failing = {} /\ puts[2][1].failing = {}
    /\ Response(1).source = "gemini" /\ Response(2).source = "local"
    /\ Response(1).answer /= Response(2).answer
    /\ \E r \in store["mongodb"] :
         /\ store["mongodb"] = {r}
         /\ r.hit_count = 2
         /\ r.answer \in {Response(1).answer, Response(2).answer}

----------------------------------------------------------------------------
(* The end of the fallback chain, checked under Spec *)

\* Slot p's request has finished after a chain in which no backend answered
AllBackendsUnavailable(p) ==
    /\ pc[p] = "done"
    /\ Len(puts[p]) = 1
    /\ Answered(p) = {}

\* C22: when every generative backend is unavailable the retriever is always
\* called and its result is the response, also when its index is not loaded;
\* the static mock answer of the handler is never the response (the retriever
\* does not raise).
C22_RetrievalAlwaysRuns ==
    \A p \in SeqSlots :
        AllBackendsUnavailable(p) =>
            /\ Entries(p, "retrieval") /= {}
            /\ producer[p] = "retrieval"

\* A request was answered with the handler's static mock answer without any
\* call of the retriever: the index was not loaded
MockWithoutRetrieval ==
    \E p \in SeqSlots :
        /\ AllBackendsUnavailable(p)
        /\ Entries(p, "retrieval") = {}
        /\ producer[p] = "mock"
        /\ Response(p).answer = _get_mock_answer(qfm[p]).answer

\* What does hold: with the backends unavailable the retriever is called exactly
\* when the index is loaded, and the response is its answer then and the
\* handler's static mock answer otherwise
RetrievalOnlyWhenLoaded ==
    \A p \in SeqSlots :
        AllBackendsUnavailable(p) =>
            IF Entries(p, "retrieval") /= {}
            THEN producer[p] = "retrieval"
            ELSE /\ producer[p] = "mock"
                 /\ Response(p).answer = FinalAnswer(_get_mock_answer(qfm[p]), lang[p])

----------------------------------------------------------------------------
(* A backend call that never returns *)

\* lines 339-341 with a generate_content call that does not return:
\* genai.Client is built without a timeout and the handler sets no deadline,
\* so the request waits in the call.  (The Ollama call has timeout=
\* OLLAMA_TIMEOUT: a silent server makes urlopen raise, which is Raises.)
AskGeminiNoReturn(p) ==
    /\ pc[p] = "gemini"
    /\ pc' = [pc EXCEPT ![p] = "gemini_waiting"]
    /\ calls' = [calls EXCEPT ![p] = Append(@, Call("gemini", None))]
    /\ UNCHANGED <<sbclient, dbcfg, store, clock, nmiss, req, lang, qfm, ctx, result, ans, resp,
                   puts, producer, dbop, shadow, probe>>

NextWait ==
    \E p \in SeqSlots :
        \/ AskReceive(p)
        \/ AskGemini(p)
        \/ AskGeminiNoReturn(p)
        \/ AskOpenAI(p)
        \/ AskOllama(p)
        \/ AskRagSkip(p)
        \/ AskRagQuery(p)
        \/ AskCache(p)
        \/ AskReturn(p)

\* The server keeps running the handler: a step that can be taken is taken
SpecWait == Init /\ [][NextWait]_vars /\ WF_vars(NextWait)

\* C23: a request whose backend call does not return is still answered: the
\* call is given up as unavailable at the deadline and the chain proceeds, so
\* every request that entered the chain eventually has its response.
C23_DeadlineProceeds ==
    \A p \in SeqSlots :
        (pc[p] \in InFlight \cup {"gemini_waiting"}) ~> (pc[p] = "done")

\* A request waits in a Gemini call and no step of the handler can be taken
WaitingForever ==
    \E p \in SeqSlots :
        /\ pc[p] = "gemini_waiting"
        /\ ~ENABLED NextWait

\* What does hold: a request all of whose calls return or raise is answered
AnsweredWhenCallsReturn ==
    \A p \in SeqSlots : (pc[p] \in InFlight) ~> (pc[p] \in {"done", "gemini_waiting"})

----------------------------------------------------------------------------
(* The internal retry of gemini_client.generate, checked under SpecGen *)

\* The model names in the order of the claim; GEMINI_MODEL is the configured one
RetryOrder == <<"GEMINI_MODEL", "gemini-2.0-flash", "gemini-1.5-flash", "gemini-flash-latest">>

\* The call with the i-th name gave a response with text in it
YieldsText(i) == probe.arg.outs[i].kind = "text" /\ probe.arg.outs[i].text /= <<>>

\* C24: the names are called in list order; a call that raises or returns
\* empty text is followed by the call of the next name; the first response with
\* text ends the retry and its text, trimmed, is returned; unavailable is
\* returned only after every name was called; the adapter passes on a non-empty
\* text or unavailable.
C24_GeminiRetry ==
    probe.fn = "gemini_retry" /\ probe.arg.client =>
        LET called == probe.out.called
            n == Len(called)
        IN  /\ n \in 1..Len(RetryOrder)
            /\ called = SubSeq(RetryOrder, 1, n)
            /\ \A i \in 1..(n - 1) : ~YieldsText(i)
            /\ IF YieldsText(n)
               THEN probe.out.ret = <<Trimmed(probe.arg.outs[n].text)>>
               ELSE /\ n = Len(RetryOrder)
                    /\ probe.out.ret = <<>>
            /\ \/ probe.out.seen = <<>>
               \/ /\ probe.out.seen /= <<>>
                  /\ probe.out.seen[1].answer /= <<>>
                  /\ probe.out.seen[1].answer = Trimmed(probe.arg.outs[n].text)

\* The first name raised, the second returned empty text, the third answered:
\* three names were called and the fourth was not
C24_Witness ==
    /\ probe.fn = "gemini_retry"
    /\ probe.arg.client
    /\ probe.arg.outs[1] = Raises
    /\ probe.arg.outs[2] = Returns(<<>>)
    /\ probe.arg.outs[3] = Returns(<<" ", "o", "k", "\n">>)
    /\ probe.out.called = <<"GEMINI_MODEL", "gemini-2.0-flash", "gemini-1.5-flash">>
    /\ probe.out.ret = << <<"o", "k">> >>

----------------------------------------------------------------------------
(* Translation in the /ask pipeline, checked under Spec *)

\* C25: translate_text returns its text for every pair of languages, so in
\* every request that goes down the chain the query handed to the backends is
\* the raw query, and the answer returned and cached is the answer of the
\* source that produced the result, whatever the resolved language.
C25_TranslationPassThrough ==
    \A p \in SeqSlots :
        /\ pc[p] \in InFlight =>
              /\ qfm[p] = req[p].query
              /\ \A s, t \in KnownLanguageCodes :
                    translate_text(req[p].query, s, t) = req[p].query
        /\ pc[p] = "done" /\ Len(puts[p]) = 1 =>
              /\ qfm[p] = req[p].query
              /\ Response(p).answer = result[p][1].answer
              /\ puts[p][1].args.answer = result[p][1].answer
              /\ \A s \in dbcfg \ puts[p][1].failing :
                    \A r \in EntryRows(store[s], req[p].query, lang[p]) :
                        r.answer = result[p][1].answer

\* A request in Hindi was answered by the static mock, the one case in which
\* both the query and the answer pass through translate_text, and stored
C25_Witness ==
    \E p \in SeqSlots :
        /\ pc[p] = "done"
        /\ lang[p] = "hi"
        /\ Len(puts[p]) = 1
        /\ puts[p][1].failing = {}
        /\ dbcfg = {"mysql"}
        /\ producer[p] = "mock"
        /\ Response(p).answer = _get_mock_answer(req[p].query).answer
        /\ \E r \in store["mysql"] : r.answer = Response(p).answer

----------------------------------------------------------------------------
(* context_utils.py applied to every calendar month and request season *)

\* datetime.now().month
Months == 1..12

\* AskRequest.season: absent, empty, or a text of the caller
SeasonInputs == {None, Some(""), Some("Kharif (monsoon)"), Some("after the rains")}

InitSeason ==
    /\ PipelineIdle
    /\ \E month \in Months, season \in SeasonInputs :
         probe = [fn |-> "input", arg |-> [month |-> month, season |-> season], out |-> <<>>]

\* get_indian_season() in month probe.arg.month
ApplySeason ==
    /\ probe.fn = "input"
    /\ probe' = [fn |-> "get_indian_season", arg |-> probe.arg,
                 out |-> get_indian_season(probe.arg.month)]
    /\ PipelineUnchanged

\* ask_question, line 316, and the build_context_prompt of the adapters
ApplyContext ==
    /\ probe.fn = "input"
    /\ \E season \in {IF IsNone(probe.arg.season) \/ Get(probe.arg.season) = ""
                      THEN get_indian_season(probe.arg.month)
                      ELSE Get(probe.arg.season)} :
         probe' = [fn |-> "build_context_prompt", arg |-> probe.arg,
                   out |-> build_context_prompt(Some(season), probe.arg.month)]
    /\ PipelineUnchanged

\* build_context_prompt(season=request.season) as image analysis and the
\* retriever path call it, without the default of line 316
ApplyContextDirect ==
    /\ probe.fn = "input"
    /\ probe' = [fn |-> "build_context_prompt_direct", arg |-> probe.arg,
                 out |-> build_context_prompt(probe.arg.season, probe.arg.month)]
    /\ PipelineUnchanged

NextSeason == ApplySeason \/ ApplyContext \/ ApplyContextDirect

SpecSeason == InitSeason /\ [][NextSeason]_vars

\* The season of each calendar month
SeasonOfMonth ==
    [m \in 1..12 |-> CASE m \in 6..10 -> "Kharif (monsoon)"
                       [] m \in {11, 12, 1, 2, 3} -> "Rabi (winter)"
                       [] m \in {4, 5} -> "Zaid (summer)"]

\* The request supplies a season
Supplied(season) == season /= <<>> /\ season[1] /= ""

\* C26: the default season is defined for every month: Kharif (monsoon) for
\* 6..10, Rabi (winter) for 11, 12, 1, 2, 3, Zaid (summer) for 4 and 5; the
\* context string carries exactly one season, the request's when it supplies
\* one and the default of the month otherwise.
C26_SeasonOfMonth ==
    /\ probe.fn = "get_indian_season" => probe.out = SeasonOfMonth[probe.arg.month]
    /\ probe.fn \in {"build_context_prompt", "build_context_prompt_direct"} =>
          /\ Cardinality({i \in 1..Len(probe.out) :
                             probe.out[i] = "Current season in India: "}) = 1
          /\ probe.out = <<"Current season in India: ",
                           IF Supplied(probe.arg.season) THEN probe.arg.season[1]
                           ELSE SeasonOfMonth[probe.arg.month]>>

\* In October a request without a season gets the monsoon season in its context
C26_Witness ==
    /\ probe.fn = "build_context_prompt"
    /\ probe.arg.month = 10
    /\ probe.arg.season = None
    /\ probe.out = <<"Current season in India: ", "Kharif (monsoon)">>

----------------------------------------------------------------------------
(* The stores of one Database instance, checked under SpecDb *)

\* The stores whose query_cache holds a row
StoresWritten == {s \in StoreNames : store[s] /= {}}

\* C27: a Database instance has one backing store (Supabase when configured,
\* else the fallback store, else none) and every put and get goes to it: the
\* entries written through the instance are all in one store.
C27_SingleStore == Cardinality(StoresWritten) <= 1

\* One put, with no store failing, has written its entry into Supabase and
\* into MongoDB
EntryInTwoStores ==
    /\ dbop.op = "put"
    /\ dbop.failing = {}
    /\ clock = 1
    /\ dbcfg = {"supabase", "mongodb"}
    /\ store["supabase"] /= {}
    /\ store["mongodb"] /= {}

\* What does hold: MySQL is used only alone, and a call writes only stores the
\* Database holds (none after close)
WrittenStoresConfigured ==
    /\ []("mysql" \in dbcfg => dbcfg = {"mysql"})
    /\ [][\A s \in StoreNames \ dbcfg : store'[s] = store[s]]_vars

----------------------------------------------------------------------------
(* detect_language on texts made of English words *)

\* English words with a keyword inside (how, who, hike), a keyword in upper
\* case (kIn), a keyword as a word (ela), words without one (know, rice, RICE)
\* and punctuation
KeywordWords == { <<"h","o","w">>, <<"w","h","o">>, <<"k","n","o","w">>, <<"r","i","c","e">>, <<"R","I","C","E">>, <<"h","i","k","e">>, <<"k","I","n">>, <<"e","l","a">>, <<"?">> }

KeywordTexts ==
    { JoinWords(ws) : ws \in UNION {[1..n -> KeywordWords] : n \in 0..MaxQueryWords} }

InitKeyword ==
    /\ PipelineIdle
    /\ \E hint \in {"auto", "en"}, text \in KeywordTexts :
         probe = [fn |-> "input", arg |-> [hint |-> hint, text |-> text], out |-> <<>>]

SpecKeyword == InitKeyword /\ [][NextLang]_vars

\* The transliterated keywords of the three lists
ListedKeywords == { <<"e","l","a">>,
                    <<"c","h","e","y","a","m">>,
                    <<"u","n","d","h","i">>,
                    <<"l","e","d","h","u">>,
                    <<"a","v","u","t","h","u","n","d","i">>,
                    <<"c","h","e","p","p","u">>,
                    <<"i","v","v","a","n","d","i">>,
                    <<"k","a","i","s","e">>,
                    <<"k","y","a">>,
                    <<"k","y","u","n">>,
                    <<"h","a","i">>,
                    <<"h","o">>,
                    <<"k","a","r">>,
                    <<"k","a","r","n","e">>,
                    <<"k","e">>,
                    <<"k","i">>,
                    <<"e","l","a","a","m">>,
                    <<"i","r","u","k","k","u">>,
                    <<"p","a","n","n","u">>,
                    <<"p","a","n","n","a","l","a","m">>,
                    <<"v","e","n","u","m">>,
                    <<"i","l","l","a","i">> }

UpperLetters == <<"A", "B", "C", "D", "E", "F", "G", "H", "I", "J", "K", "L", "M", "N", "O", "P", "Q", "R", "S", "T", "U", "V", "W", "X", "Y", "Z">>
LowerLetters == <<"a", "b", "c", "d", "e", "f", "g", "h", "i", "j", "k", "l", "m", "n", "o", "p", "q", "r", "s", "t", "u", "v", "w", "x", "y", "z">>
IsLatin(c) == \E i \in 1..26 : c = UpperLetters[i] \/ c = LowerLetters[i]
FoldLatin(c) == IF \E i \in 1..26 : c = UpperLetters[i]
                THEN LowerLetters[CHOOSE i \in 1..26 : c = UpperLetters[i]]
                ELSE c

\* A keyword occurs somewhere in the case-folded text
KeywordInside(t) ==
    \E w \in ListedKeywords : \E i \in 0..(Len(t) - Len(w)) :
        \A j \in 1..Len(w) : FoldLatin(t[i + j]) = w[j]

\* The text has a Latin letter, and no character that is neither a Latin
\* letter nor a space or punctuation
HasLatin(t) == \E i \in 1..Len(t) : IsLatin(t[i])
AllLatin(t) == HasLatin(t) /\ \A i \in 1..Len(t) : IsLatin(t[i]) \/ t[i] \in {" ", "?"}

\* C28: keyword matching is containment in the lower-cased text: with hint
\* `auto` a text with a Latin letter and a keyword anywhere in it, also inside a
\* longer word, resolves to `mixed`, and an all-Latin text resolves to `en`
\* exactly when no keyword occurs in it.
C28_SubstringKeywords ==
    probe.fn = "resolve" /\ probe.arg.hint = "auto" =>
        LET t == probe.arg.text
        IN  /\ HasLatin(t) /\ KeywordInside(t) => probe.out = "mixed"
            /\ AllLatin(t) => (probe.out = "en" <=> ~KeywordInside(t))

\* `how` resolves to mixed through the keyword `ho` inside it
C28_Witness ==
    /\ probe.fn = "resolve"
    /\ probe.arg.hint = "auto"
    /\ probe.arg.text = <<"h", "o", "w">>
    /\ probe.out = "mixed"

----------------------------------------------------------------------------
(* /ask requests served one after another, with the outcome of each request's
   cache lookup on record *)

\* The language every request of SpecCached names
CachedLanguage == "en"

\* lines 319-325, with the call of db.get_cached_response recorded in dbop
AskReceiveLogged(p) ==
    \E failing \in SUBSET dbcfg :
        /\ AskReceiveWith(p, failing)
        /\ req'[p].language = CachedLanguage
        /\ dbop' = [op |-> "get", query |-> req'[p].query, language |-> lang'[p],
                    failing |-> failing,
                    res |-> IF IsNone(resp'[p]) THEN None
                            ELSE Some([answer |-> Get(resp'[p]).answer,
                                       category |-> Get(resp'[p]).category])]

\* Database with one backing store
CachedConfigs == {c \in DbConfigs : Cardinality(c) = 1}

\* nmiss starts one below zero: a request may miss the cache after the one that
\* wrote the entry did
InitCached ==
    /\ dbcfg \in CachedConfigs
    /\ sbclient \in ClientsOf(dbcfg)
    /\ store = [s \in StoreNames |-> {}]
    /\ clock = 0
    /\ nmiss = 0 - 1
    /\ pc = [p \in Slots |-> "idle"]
    /\ req = [p \in Slots |-> NoRequest]
    /\ lang = [p \in Slots |-> "en"]
    /\ qfm = [p \in Slots |-> <<>>]
    /\ ctx = [p \in Slots |-> <<>>]
    /\ result = [p \in Slots |-> None]
    /\ ans = [p \in Slots |-> <<>>]
    /\ resp = [p \in Slots |-> None]
    /\ calls = [p \in Slots |-> <<>>]
    /\ puts = [p \in Slots |-> <<>>]
    /\ producer = [p \in Slots |-> "none"]
    /\ dbop = NoDbOp
    /\ shadow = <<>>
    /\ probe = NoProbe

NextCached ==
    \E p \in SeqSlots :
        \/ AskReceiveLogged(p)
        \/ AskGemini(p)
        \/ AskOpenAI(p)
        \/ AskOllama(p)
        \/ AskRagSkip(p)
        \/ AskRagQuery(p)
        \/ AskCache(p)
        \/ AskReturn(p)

SpecCached == InitCached /\ [][NextCached]_vars

\* The request in slot p has just looked its key up, and no store raised
LookedUp(p) ==
    /\ dbop.op = "get"
    /\ dbop.failing = {}
    /\ Len(calls[p]) = 1
    /\ pc[p] \in {"gemini", "done"}

\* The answers that earlier requests wrote for the key of the request in slot p
StoredAnswers(p) ==
    UNION { {r.answer : r \in Matching(store[s], GetKey(req[p].query), lang[p])} :
            s \in dbcfg }

\* The answer ask_question returns when every backend is down and retrieval is
\* not loaded
StaticMockAnswer(p) ==
    FinalAnswer(_get_mock_answer(QueryForModel(req[p].query, lang[p])), lang[p])

\* C29: cache entries are never invalidated: once a request has written an
\* answer for a key, every later request with that key whose lookup finds the
\* stores available is answered from the cache with a stored answer, and calls
\* no backend, whatever the backends would have done.
C29_NeverInvalidated ==
    \A p \in SeqSlots :
        LookedUp(p) /\ StoredAnswers(p) /= {} =>
            /\ pc[p] = "done"
            /\ ~IsNone(resp[p])
            /\ Get(resp[p]).source = "cache"
            /\ Get(resp[p]).answer \in StoredAnswers(p)
            /\ calls[p] = <<Call("cache_get", None)>>

\* a later request is answered from the cache with the static mock answer that
\* an earlier request wrote
C29_Witness ==
    \E p \in SeqSlots :
        /\ LookedUp(p)
        /\ StoredAnswers(p) = {StaticMockAnswer(p)}
        /\ pc[p] = "done"
        /\ Get(resp[p]).source = "cache"
        /\ Get(resp[p]).answer = StaticMockAnswer(p)

----------------------------------------------------------------------------
(* The documents of a retrieval result, checked under SpecRag *)

\* C30: every document of a retrieval result is the corpus document at an index
\* that the search reported as a match: a negative (padding) index and an index
\* past the end of the corpus add no document, so the sources of the result are
\* the titles of the matched documents, in order.
C30_OnlyMatchedDocuments ==
    (/\ probe.fn = "query"
     /\ probe.arg.index_loaded
     /\ probe.arg.search.kind = "indices")
    => probe.out.sources = MatchedTitles(probe.arg.search.indices)

\* every document of a result is a corpus document at a position that passes
\* the guard idx < len(documents), counted from the end when idx is negative
DocumentsPassTheGuard ==
    (/\ probe.fn = "query"
     /\ probe.arg.index_loaded
     /\ probe.arg.search.kind = "indices")
    => \A i \in 1..Len(probe.out.sources) :
         \E j \in 1..Len(probe.arg.search.indices) :
            LET idx == probe.arg.search.indices[j]
            IN  /\ idx < Len(documents)
                /\ probe.out.sources[i] =
                     documents[(IF idx >= 0 THEN idx ELSE Len(documents) + idx) + 1].title

----------------------------------------------------------------------------
(* The cache contract on a Supabase client that returns empty data for a key
   with no row: the insert of cache_response is reached *)

InsertingClient == sbclient = "empty"
RoundTripWithInsert == InsertingClient => C8_RoundTrip
UpsertCountWithInsert == InsertingClient => C9_UpsertCount
UpsertStepWithInsert == [][InsertingClient => C9_UpsertStep]_vars
NormalizationWithInsert == InsertingClient => C10_Normalization
NoSingleFlightWithInsert == InsertingClient => C21_NoSingleFlight

\* a put on a Supabase-only Database whose client returns None left no row
PutLeftNoRow ==
    /\ dbop.op = "put" /\ dbop.failing = {}
    /\ dbcfg = {"supabase"} /\ sbclient = "none"
    /\ store["supabase"] = {}

====
